---- MODULE Spec2Model ----
(***************************************************************************)
(* IgniteShaderCompiler: compile-argument synthesis (CompileDXC,           *)
(* CompileGLSL), reflection normalisation (SPIRVReflect, DXILReflect) and  *)
(* the C entry points built on them.  One action per public call; the      *)
(* state is what the last call produced.                                   *)
(***************************************************************************)
EXTENDS Integers, Sequences, FiniteSets, TLC

VARIABLES
    host,        \* build switch _WIN32: "windows" or "other"
    api,         \* name of the last public call
    result,      \* IGNITE_ResultCode returned by the last C entry point ("NONE" for a C++ call)
    request,     \* what the last C call was handed: NULL or a pointer to a compile request,
                 \* or the pointer and size arguments of a reflect call
    backend,     \* what the native libraries answered during the last call
    options,     \* CompilerOptions used by the last compile call
    args,        \* argument list built by CompileDXC
    regShifts,   \* CompileDXC's local register-shift block
    resultCode,  \* size of the bytecode vector returned by the last compile call
    code,        \* shaderCode.size() handed to the last reflect call
    info,        \* ShaderReflectionInfo returned by the last reflect call
    outInfo,     \* the caller's IgniteShaderReflectionInfo structure after the last call
    inputs,      \* DXILReflect's local list of vertex inputs, after its sort
    mapped,      \* argument and result of the last type-mapper call
    allocator,   \* the allocation refused in the last call (0: none, -1: inside the reflection)
    trace,       \* in call order: messages passed to DispatchLog and native backend calls
    g_logCallback,  \* the logging sink's active callback (NULL: none)
    g_logUserData,  \* the user-data pointer handed to the active callback
    g_logBridge,    \* the C API's CLogBridgeContext: the C callback and its user data
    listener        \* the arguments of the caller's latest registration call

\* the process-wide logging configuration, with the caller's view of it
sink == <<g_logCallback, g_logUserData, g_logBridge, listener>>

vars == <<host, api, result, request, backend, options, args, regShifts, resultCode, code, info,
          outInfo, inputs, mapped, allocator, trace, sink>>

----------------------------------------------------------------------------
(* Bounds of the model *)

MaxIO == 3
MaxOut == 2
MaxWidth == 5

----------------------------------------------------------------------------
(* Small helpers *)

Range(s) == {s[i] : i \in 1..Len(s)}

RECURSIVE Join(_)
Join(s) == IF s = <<>> THEN "" ELSE Head(s) \o Join(Tail(s))

RECURSIVE Flatten(_)
Flatten(ss) == IF ss = <<>> THEN <<>> ELSE Head(ss) \o Flatten(Tail(ss))

\* all sequences of at most n elements of S
RECURSIVE SeqsUpTo(_, _)
SeqsUpTo(S, n) ==
    IF n = 0 THEN {<<>>}
    ELSE LET shorter == SeqsUpTo(S, n - 1)
         IN  shorter \cup {Append(s, x) : s \in shorter, x \in S}

Distinct(s) == \A i, j \in 1..Len(s) : i # j => s[i] # s[j]

\* one entry of the call trace: a DispatchLog message or a native backend call
LogEv(type, text) == [kind |-> "log", name |-> type, data |-> text]
Call(name, data) == [kind |-> "call", name |-> name, data |-> data]

IsLog(e, type) == e.kind = "log" /\ e.name = type
IsCall(e, name) == e.kind = "call" /\ e.name = name

Calls(tr, name) == SelectSeq(tr, LAMBDA e : IsCall(e, name))
Logs(tr, type) == SelectSeq(tr, LAMBDA e : IsLog(e, type))

----------------------------------------------------------------------------
(* Compile descriptor: CompilerOptions and ShaderDesc *)

SPIRV_SPACES_NUM == 8

ShaderTypes == {"VERTEX", "PIXEL", "GEOMETRY", "COMPUTE", "TESSELLATION"}
PlatformTypes == {"DXBC", "DXIL", "SPIRV"}
OptLevels == 0..3

FlagNames == {"warningsAreErrors", "allResourcesBound", "matrixRowMajor", "hlsl2021",
              "embedPdb", "stripReflection", "verbose", "pdb"}

\* a path: its stem and its extension (std::filesystem::path::extension)
Path(stem, ext) == [stem |-> stem, ext |-> ext]
wstring(path) == path.stem \o path.ext

ShaderDesc == [entryPoint |-> "main",
               shaderModel |-> <<"6", "_", "5">>,
               vulkanVersion |-> "1.3",
               vulkanMemoryLayout |-> "",
               shaderType |-> "VERTEX",
               optLevel |-> 3]

\* CompilerOptions options = {}: the default member initializers
CompilerOptions ==
    [compilerType |-> "DXC",
     platformType |-> "DXBC",
     filepath |-> Path("", ""),
     outputFilepath |-> "",
     includeDirectories |-> <<>>,
     spirvExtensions |-> <<"SPV_EXT_descriptor_indexing", "KHR">>,
     compilerOptions |-> <<>>,
     defines |-> <<>>,
     tRegShift |-> 0,
     sRegShift |-> 128,
     bRegShift |-> 256,
     uRegShift |-> 384,
     shaderDesc |-> ShaderDesc,
     warningsAreErrors |-> FALSE,
     allResourcesBound |-> FALSE,
     pdb |-> FALSE,
     embedPdb |-> FALSE,
     stripReflection |-> FALSE,
     matrixRowMajor |-> FALSE,
     hlsl2021 |-> FALSE,
     verbose |-> FALSE]

\* the four shift fields in their order of declaration in CompilerOptions
RegShiftLayout == <<"tRegShift", "sRegShift", "bRegShift", "uRegShift">>

IGNITE_ShaderTypeToProfile(type) ==
    CASE type = "VERTEX" -> "vs"
      [] type = "PIXEL" -> "ps"
      [] type = "GEOMETRY" -> "gs"
      [] type = "COMPUTE" -> "cs"
      [] type = "TESSELLATION" -> "ts"
      [] OTHER -> "invalid"

----------------------------------------------------------------------------
(* Text conversions *)

Digit(d) ==
    CASE d = 0 -> "0" [] d = 1 -> "1" [] d = 2 -> "2" [] d = 3 -> "3" [] d = 4 -> "4"
      [] d = 5 -> "5" [] d = 6 -> "6" [] d = 7 -> "7" [] d = 8 -> "8" [] d = 9 -> "9"

\* swprintf(buf, size, L"%u", n)
RECURSIVE swprintf_u(_)
swprintf_u(n) == IF n < 10 THEN Digit(n) ELSE swprintf_u(n \div 10) \o Digit(n % 10)

\* the character code of ch, for the characters shader model strings are made of
CharCode(ch) ==
    CASE ch = "0" -> 48 [] ch = "1" -> 49 [] ch = "2" -> 50 [] ch = "3" -> 51
      [] ch = "4" -> 52 [] ch = "5" -> 53 [] ch = "6" -> 54 [] ch = "7" -> 55
      [] ch = "8" -> 56 [] ch = "9" -> 57 [] ch = "." -> 46 [] ch = "_" -> 95

\* variant of TokenizeLoop: a quote switches the quoting and is kept in the option
RECURSIVE TokenizeLoopKeepQuotes(_, _, _, _, _)
TokenizeLoopKeepQuotes(in, current, quotes, escape, out) ==
    IF in = <<>>
    THEN IF current # "" THEN Append(out, current) ELSE out
    ELSE LET ch == Head(in)
             rest == Tail(in)
         IN  IF escape
             THEN TokenizeLoopKeepQuotes(rest, current \o ch, quotes, FALSE, out)
             ELSE IF ch = " " /\ ~quotes
             THEN TokenizeLoopKeepQuotes(rest, "", quotes, FALSE,
                                         IF current # "" THEN Append(out, current) ELSE out)
             ELSE IF ch = "\\"
             THEN TokenizeLoopKeepQuotes(rest, current, quotes, TRUE, out)
             ELSE IF ch = "\""
             THEN TokenizeLoopKeepQuotes(rest, current \o ch, ~quotes, FALSE, out)
             ELSE TokenizeLoopKeepQuotes(rest, current \o ch, quotes, FALSE, out)

\* TokenizeCompilerOptions' loop over the characters of `in`
RECURSIVE TokenizeLoop(_, _, _, _, _)
TokenizeLoop(in, current, quotes, escape, out) ==
    IF in = <<>>
    THEN IF current # "" THEN Append(out, current) ELSE out
    ELSE LET ch == Head(in)
             rest == Tail(in)
         IN  IF escape
             THEN TokenizeLoop(rest, current \o ch, quotes, FALSE, out)
             ELSE IF ch = " " /\ ~quotes
             THEN TokenizeLoop(rest, "", quotes, FALSE,
                               IF current # "" THEN Append(out, current) ELSE out)
             ELSE IF ch = "\\"
             THEN TokenizeLoop(rest, current, quotes, TRUE, out)
             ELSE IF ch = "\""
             THEN TokenizeLoop(rest, current, ~quotes, FALSE, out)
             ELSE TokenizeLoop(rest, current \o ch, quotes, FALSE, out)

TokenizeCompilerOptions(in, out) == TokenizeLoop(in, "", FALSE, FALSE, out)

RECURSIVE TokenizeAll(_, _)
TokenizeAll(opts, out) ==
    IF opts = <<>> THEN out
    ELSE TokenizeAll(Tail(opts), TokenizeCompilerOptions(Head(opts), out))

----------------------------------------------------------------------------
(* ShaderCompiler::CompileDXC *)

\* DXC_ARG_SKIP_OPTIMIZATIONS, DXC_ARG_OPTIMIZATION_LEVEL1..3
dxcOptimizationLevelRemap == <<"-Od", "-O1", "-O2", "-O3">>

dxcRegShiftArgs == <<"-fvk-t-shift", "-fvk-s-shift", "-fvk-b-shift", "-fvk-u-shift">>

\* variant of RegShiftAt: the index is dropped, every kind reads tRegShift
RegShiftAtFirst(o, reg) == o.tRegShift

\* (&options.tRegShift)[reg]: the reg-th 32-bit field counted from tRegShift
RegShiftAt(o, reg) == o[RegShiftLayout[reg + 1]]

\* variant of RegShiftBlock: the inner loop stops one space early
RegShiftBlockShort(o) ==
    Flatten([reg \in 1..4 |->
        Flatten([space \in 1..(SPIRV_SPACES_NUM - 1) |->
            <<dxcRegShiftArgs[reg], swprintf_u(RegShiftAt(o, reg - 1)), swprintf_u(space - 1)>>])])

\* the loop nest that fills regShifts: one flag/shift/space triple per (reg, space)
RegShiftBlock(o) ==
    Flatten([reg \in 1..4 |->
        Flatten([space \in 1..SPIRV_SPACES_NUM |-> 
            <<dxcRegShiftArgs[reg], swprintf_u(RegShiftAt(o, reg - 1)), swprintf_u(space - 1)>>])])

\* (shaderModel[0] - '0') * 10 + (shaderModel[2] - '0'); for the digit characters of
\* ShaderModels the value is far inside the range of uint32_t
shaderModelIndex(o) ==
    ((CharCode(o.shaderDesc.shaderModel[1]) - 48) * 10
            + (CharCode(o.shaderDesc.shaderModel[3]) - 48))

\* variant of Enable16BitTypes: the comparison is strict
Enable16BitTypesAbove(o) == IF shaderModelIndex(o) > 62 THEN <<"-enable-16bit-types">> ELSE <<>>

\* if (shaderModelIndex >= 62) args.push_back(L"-enable-16bit-types")
Enable16BitTypes(o) == IF shaderModelIndex(o) >= 62 THEN <<"-enable-16bit-types">> ELSE <<>>

\* variant of DxcOptimizationArg: every tier above 0 reads the last entry
DxcOptimizationArgCollapsed(o) ==
    <<dxcOptimizationLevelRemap[(IF o.shaderDesc.optLevel = 0 THEN 0 ELSE 3) + 1]>>

\* args.push_back(dxcOptimizationLevelRemap[optLevel])
DxcOptimizationArg(o) == <<dxcOptimizationLevelRemap[o.shaderDesc.optLevel + 1]>>

\* variant of DxcPlatformArgs: the strip-reflection flag does not depend on the family
DxcPlatformArgsStripAlways(o, shifts) ==
    (IF o.platformType = "SPIRV"
     THEN <<"-spirv", "-fspv-target-env=vulkan" \o o.shaderDesc.vulkanVersion>>
          \o (IF o.shaderDesc.vulkanMemoryLayout # ""
              THEN <<"-fvk-use-" \o o.shaderDesc.vulkanMemoryLayout \o "-layout">>
              ELSE <<>>)
          \o [i \in 1..Len(o.spirvExtensions) |-> "-fspv-extension=" \o o.spirvExtensions[i]]
          \o shifts
     ELSE <<>>)
    \o (IF o.stripReflection THEN <<"-Qstrip_reflect">> ELSE <<>>)

\* the arguments of the target family
DxcPlatformArgs(o, shifts) ==
    IF o.platformType = "SPIRV"
    THEN <<"-spirv", "-fspv-target-env=vulkan" \o o.shaderDesc.vulkanVersion>>
         \o (IF o.shaderDesc.vulkanMemoryLayout # ""
             THEN <<"-fvk-use-" \o o.shaderDesc.vulkanMemoryLayout \o "-layout">>
             ELSE <<>>)
         \o [i \in 1..Len(o.spirvExtensions) |-> "-fspv-extension=" \o o.spirvExtensions[i]]
         \o shifts
    ELSE IF o.stripReflection THEN <<"-Qstrip_reflect">> ELSE <<>>

\* the argument list, in the order CompileDXC pushes it
\* (TokenizeCompilerOptions appends to the list built so far)
DxcArgs(o, shifts) ==
    TokenizeAll(o.compilerOptions,
        <<wstring(o.filepath), "-T",
          IGNITE_ShaderTypeToProfile(o.shaderDesc.shaderType) \o "_" \o Join(o.shaderDesc.shaderModel),
          "-E", o.shaderDesc.entryPoint>>
        \o Flatten([i \in 1..Len(o.defines) |-> <<"-D", Join(o.defines[i])>>])
        \o Flatten([i \in 1..Len(o.includeDirectories) |-> <<"-I", o.includeDirectories[i]>>])
        \o DxcOptimizationArg(o)
        \o Enable16BitTypes(o)
        \o (IF o.warningsAreErrors THEN <<"-WX">> ELSE <<>>)
        \o (IF o.allResourcesBound THEN <<"-all_resources_bound">> ELSE <<>>)
        \o (IF o.matrixRowMajor THEN <<"-Zpr">> ELSE <<>>)
        \o (IF o.hlsl2021 THEN <<"-HV", "2021">> ELSE <<>>)
        \o (IF o.embedPdb THEN <<"-Qembed_debug">> ELSE <<>>)
        \o DxcPlatformArgs(o, shifts))

\* WStringToUtf8 on text made of ASCII characters: nothing for an empty text, otherwise
\* one byte per character, of the same value
WStringToUtf8(text) == IF text = "" THEN "" ELSE text

\* variant of DxcCommandLine: the separator is written between the arguments only
RECURSIVE DxcCommandLineBetween(_)
DxcCommandLineBetween(a) ==
    IF a = <<>> THEN ""
    ELSE IF Len(a) = 1 THEN a[1]
    ELSE LET half == Len(a) \div 2
         IN  DxcCommandLineBetween(SubSeq(a, 1, half)) \o " "
             \o DxcCommandLineBetween(SubSeq(a, half + 1, Len(a)))

\* the verbose line: every argument followed by a space (built by halves)
RECURSIVE DxcCommandLine(_)
DxcCommandLine(a) ==
    IF a = <<>> THEN ""
    ELSE IF Len(a) = 1 THEN a[1] \o " "
    ELSE LET half == Len(a) \div 2
         IN  DxcCommandLine(SubSeq(a, 1, half)) \o DxcCommandLine(SubSeq(a, half + 1, Len(a)))

\* be.load: LoadFile succeeded; be.compile: Compile succeeded and produced a blob
CompileDXC(o, be) ==
    LET shifts == RegShiftBlock(o)
        a == DxcArgs(o, shifts)
        ok == be.load /\ be.compile
    IN  [regShifts |-> shifts,
         args |-> IF be.load THEN a ELSE <<>>,
         resultCode |-> IF ok THEN "bytes" ELSE "empty",
         trace |->
            <<Call("LoadFile", "")>>
            \o (IF ~be.load THEN <<>>
                ELSE (IF o.verbose THEN <<LogEv("WARNING", WStringToUtf8(DxcCommandLine(a)))>>
                      ELSE <<>>)
                     \o <<Call("CreateDefaultIncludeHandler", ""), Call("Compile", a)>>
                     \o (IF ~ok
                         THEN <<LogEv("ERROR", "Shader compilation failed.")>>
                         ELSE (IF o.pdb THEN <<Call("GetOutput", "DXC_OUT_PDB")>> ELSE <<>>)
                              \o <<Call("DumpShader", ""),
                                   LogEv("INFO", "Compiled shader: ")>>))]

----------------------------------------------------------------------------
(* ShaderCompiler::CompileGLSL *)

IGNITE_ShaderToShaderCOptLevel(level) ==
    CASE level = 0 -> "shaderc_optimization_level_zero"
      [] OTHER -> "shaderc_optimization_level_performance"

IGNITE_ShaderToVulkanEnvVersion(version) ==
    CASE version = "1.0" -> "shaderc_env_version_vulkan_1_0"
      [] version = "1.1" -> "shaderc_env_version_vulkan_1_1"
      [] version = "1.2" -> "shaderc_env_version_vulkan_1_2"
      [] OTHER -> "shaderc_env_version_vulkan_1_3"

\* define.find('='): the index of the first '=' (from 0), or Len(define) for npos
RECURSIVE FindEqual(_, _)
FindEqual(define, from) ==
    IF from >= Len(define) THEN Len(define)
    ELSE IF define[from + 1] = "=" THEN from
    ELSE FindEqual(define, from + 1)

\* the name/value pair handed to shaderc_compile_options_add_macro_definition
MacroDefinition(define) ==
    LET equalPos == FindEqual(define, 0)
    IN  IF equalPos = Len(define)
        THEN [name |-> Join(define), value |-> <<>>]
        ELSE [name |-> Join(SubSeq(define, 1, equalPos)),
              value |-> <<Join(SubSeq(define, equalPos + 2, Len(define)))>>]

\* be.read: the source file was read; be.status: shaderc's compilation status;
\* be.warnings: shaderc reported warnings
CompileGLSL(o, be) ==
    IF o.platformType # "SPIRV"
    THEN [resultCode |-> "empty",
          trace |-> <<LogEv("WARNING", "GLSL compilation currently supports SPIRV output only.")>>]
    ELSE IF ~be.read
    THEN [resultCode |-> "empty",
          trace |-> <<Call("ReadTextFile", ""), LogEv("ERROR", "Failed to read GLSL file: ")>>]
    ELSE LET setup ==
                <<Call("ReadTextFile", ""),
                  Call("shaderc_compiler_initialize", ""),
                  Call("shaderc_compile_options_initialize", ""),
                  Call("shaderc_compile_options_set_source_language", "shaderc_source_language_glsl"),
                  Call("shaderc_compile_options_set_target_env",
                       IGNITE_ShaderToVulkanEnvVersion(o.shaderDesc.vulkanVersion)),
                  Call("shaderc_compile_options_set_optimization_level",
                       IGNITE_ShaderToShaderCOptLevel(o.shaderDesc.optLevel))>>
                \o (IF o.warningsAreErrors
                    THEN <<Call("shaderc_compile_options_set_warnings_as_errors", "")>>
                    ELSE <<>>)
                \o [i \in 1..Len(o.defines) |->
                        Call("shaderc_compile_options_add_macro_definition",
                             MacroDefinition(o.defines[i]))]
                \o (IF o.verbose THEN <<LogEv("INFO", "Compiling GLSL: ")>> ELSE <<>>)
                \o <<Call("shaderc_compile_into_spv", o.shaderDesc.entryPoint)>>
         IN  IF be.status # "success"
             THEN [resultCode |-> "empty",
                   trace |-> setup \o <<LogEv("ERROR", "GLSL compilation failed: ")>>]
             ELSE [resultCode |-> "bytes",
                   trace |-> setup
                        \o (IF be.warnings THEN <<LogEv("WARNING", "")>> ELSE <<>>)
                        \o <<Call("shaderc_result_release", ""),
                             Call("shaderc_compile_options_release", ""),
                             Call("shaderc_compiler_release", ""),
                             Call("DumpShader", ""),
                             LogEv("INFO", "Compiled GLSL shader: ")>>]

----------------------------------------------------------------------------
(* C entry point IgniteCompiler_Compile *)

\* a C pointer: NULL, or a pointer to a value
NULL == <<>>
Ptr(v) == <<v>>
Deref(p) == p[1]

ToLower(ext) ==
    CASE ext = ".GLSL" -> ".glsl"
      [] ext = ".HLSL" -> ".hlsl"
      [] OTHER -> ext

IsGlslFile(path) == ToLower(path.ext) = ".glsl"

\* ShaderCompiler::CreateDXCCompiler; be.create: both DxcCreateInstance calls succeeded
CreateDXCCompiler(be) ==
    IF be.create
    THEN <<Call("DxcCreateInstance", "CLSID_DxcCompiler"), Call("DxcCreateInstance", "CLSID_DxcUtils"),
           LogEv("INFO", "DXC compiler initialized.")>>
    ELSE <<Call("DxcCreateInstance", "CLSID_DxcCompiler"),
           LogEv("ERROR", "Failed to create IDxcCompiler3 instance.")>>

\* a string field of the request, or its default when the field is null or empty
StringOr(field, empty, default) ==
    IF field # NULL /\ Deref(field) # empty THEN Deref(field) ELSE default

\* the CompilerOptions IgniteCompiler_Compile builds from the request r
RequestFlagsAndDesc(r) ==
    [CompilerOptions EXCEPT
        !.compilerType = "DXC",
        !.platformType = r.platformType,
        !.filepath = Deref(r.inputPath),
        !.outputFilepath = StringOr(r.outputDirectory, "", ""),
        !.shaderDesc = [ShaderDesc EXCEPT
            !.entryPoint = StringOr(r.entryPoint, "", "main"),
            !.shaderModel = StringOr(r.shaderModel, <<>>, <<"6", "_", "5">>),
            !.vulkanVersion = StringOr(r.vulkanVersion, "", "1.3"),
            !.vulkanMemoryLayout = IF r.vulkanMemoryLayout # NULL
                                   THEN Deref(r.vulkanMemoryLayout) ELSE "",
            !.shaderType = r.shaderType,
            !.optLevel = r.optimizationLevel],
        !.warningsAreErrors = r.warningsAreErrors # 0,
        !.allResourcesBound = r.allResourcesBound # 0,
        !.stripReflection = r.stripReflection # 0,
        !.matrixRowMajor = r.matrixRowMajor # 0,
        !.hlsl2021 = r.hlsl2021 # 0,
        !.embedPdb = r.embedPdb # 0,
        !.pdb = r.pdb # 0,
        !.verbose = r.verbose # 0]
RequestOptions(r) ==
    [RequestFlagsAndDesc(r) EXCEPT
        !.tRegShift = r.tRegShift,
        !.sRegShift = r.sRegShift,
        !.bRegShift = r.bRegShift,
        !.uRegShift = r.uRegShift]

NoCompile == [regShifts |-> <<>>, args |-> <<>>, resultCode |-> "empty", trace |-> <<>>]

\* req: NULL or a pointer to an IgniteCompileRequest; h: the host the library is built for
IgniteCompiler_Compile(req, h, be) ==
    IF req = NULL \/ Deref(req).inputPath = NULL \/ Deref(Deref(req).inputPath) = Path("", "")
    THEN [result |-> "INVALID_ARGUMENT", options |-> CompilerOptions, out |-> NoCompile]
    ELSE LET o == RequestOptions(Deref(req))
         IN  IF IsGlslFile(o.filepath)
             THEN LET c == CompileGLSL(o, be)
                  IN  [result |-> IF c.resultCode = "empty" THEN "COMPILATION_FAILED" ELSE "OK",
                       options |-> o,
                       out |-> [NoCompile EXCEPT !.resultCode = c.resultCode, !.trace = c.trace]]
             ELSE IF h # "windows"
             THEN [result |-> "UNSUPPORTED_PLATFORM", options |-> o, out |-> NoCompile]
             ELSE IF ~be.create
             THEN [result |-> "INTERNAL_ERROR", options |-> o,
                   out |-> [NoCompile EXCEPT !.trace = CreateDXCCompiler(be)]]
             ELSE LET c == CompileDXC(o, be)
                  IN  [result |-> IF c.resultCode = "empty" THEN "COMPILATION_FAILED" ELSE "OK",
                       options |-> o,
                       out |-> [c EXCEPT !.trace = CreateDXCCompiler(be) \o c.trace]]

----------------------------------------------------------------------------
(* Reflection model: ShaderReflectionInfo and the type mappers *)

INVALID == "INVALID"

\* ShaderReflectionInfo info = {}
ShaderReflectionInfo ==
    [shaderType |-> "VERTEX",
     numUniformBuffers |-> 0, numSamplers |-> 0, numStorageTextures |-> 0,
     numStorageBuffers |-> 0, numSeparateSamplers |-> 0, numSeparateImages |-> 0,
     numPushConstants |-> 0, numStageInputs |-> 0, numStageOutputs |-> 0,
     uniformBuffers |-> <<>>, sampledImages |-> <<>>, storageImages |-> <<>>,
     storageBuffers |-> <<>>, separateSamplers |-> <<>>, separateImages |-> <<>>,
     pushConstants |-> <<>>, stageInputs |-> <<>>, stageOutputs |-> <<>>,
     vertexAttributes |-> <<>>]

\* ShaderStageIOInfo io = {}
ShaderStageIOInfo ==
    [name |-> "", id |-> 0, location |-> 0, format |-> INVALID, vecSize |-> 0, columns |-> 0]

\* VertexAttribute attribute = {}
VertexAttribute ==
    [name |-> "", format |-> INVALID, bufferIndex |-> 0, offset |-> 0, elementStride |-> 0]

\* ShaderResourceInfo item = {}
ShaderResourceInfo == [name |-> "", id |-> 0, set |-> 0, binding |-> 0, count |-> 1]

\* const char* to std::string, "" for a null pointer
NameOf(p) == IF p # NULL THEN Deref(p) ELSE ""

\* a SPIRV-Cross type: base type, vector size, columns
SpvcType(basetype, vecsize, columns) ==
    [basetype |-> basetype, vecsize |-> vecsize, columns |-> columns]

\* typeHandle: NULL or a pointer to a SPIRV-Cross type
IGNITE_MapSpvcType(typeHandle) ==
    IF typeHandle = NULL THEN INVALID
    ELSE LET baseType == Deref(typeHandle).basetype
             vecSize == Deref(typeHandle).vecsize
             columns == Deref(typeHandle).columns
         IN  IF columns # 1 THEN INVALID
             ELSE IF baseType = "FP32"
             THEN CASE vecSize = 1 -> "FLOAT" [] vecSize = 2 -> "FLOAT2"
                    [] vecSize = 3 -> "FLOAT3" [] vecSize = 4 -> "FLOAT4" [] OTHER -> INVALID
             ELSE IF baseType = "INT32"
             THEN CASE vecSize = 1 -> "INT" [] vecSize = 2 -> "INT2"
                    [] vecSize = 3 -> "INT3" [] vecSize = 4 -> "INT4" [] OTHER -> INVALID
             ELSE IF baseType = "UINT32"
             THEN CASE vecSize = 1 -> "UINT" [] vecSize = 2 -> "UINT2"
                    [] vecSize = 3 -> "UINT3" [] vecSize = 4 -> "UINT4" [] OTHER -> INVALID
             ELSE INVALID

\* variant of IGNITE_Map3DComponent: three and four floats map to FLOAT3 and FLOAT4
IGNITE_Map3DComponentUnshifted(componentType, elementCount) ==
    IF componentType = "FLOAT32"
    THEN CASE elementCount = 1 -> "FLOAT" [] elementCount = 2 -> "FLOAT2"
           [] elementCount = 3 -> "FLOAT3" [] elementCount = 4 -> "FLOAT4" [] OTHER -> INVALID
    ELSE IF componentType = "SINT32"
    THEN CASE elementCount = 1 -> "INT" [] elementCount = 2 -> "INT2"
           [] elementCount = 3 -> "INT3" [] elementCount = 4 -> "INT4" [] OTHER -> INVALID
    ELSE IF componentType = "UINT32"
    THEN CASE elementCount = 1 -> "UINT" [] elementCount = 2 -> "UINT2"
           [] elementCount = 3 -> "UINT3" [] elementCount = 4 -> "UINT4" [] OTHER -> INVALID
    ELSE INVALID

\* variant of IGNITE_Map3DComponent: the cases for four elements are missing
IGNITE_Map3DComponentUpTo3(componentType, elementCount) ==
    IF componentType = "FLOAT32"
    THEN CASE elementCount = 1 -> "FLOAT" [] elementCount = 2 -> "FLOAT2"
           [] elementCount = 3 -> "FLOAT2" [] OTHER -> INVALID
    ELSE IF componentType = "SINT32"
    THEN CASE elementCount = 1 -> "INT" [] elementCount = 2 -> "INT2"
           [] elementCount = 3 -> "INT3" [] OTHER -> INVALID
    ELSE IF componentType = "UINT32"
    THEN CASE elementCount = 1 -> "UINT" [] elementCount = 2 -> "UINT2"
           [] elementCount = 3 -> "UINT3" [] OTHER -> INVALID
    ELSE INVALID

IGNITE_Map3DComponent(componentType, elementCount) ==
    IF componentType = "FLOAT32"
    THEN CASE elementCount = 1 -> "FLOAT" [] elementCount = 2 -> "FLOAT2"
           [] elementCount = 3 -> "FLOAT2" [] elementCount = 4 -> "FLOAT3" [] OTHER -> INVALID
    ELSE IF componentType = "SINT32"
    THEN CASE elementCount = 1 -> "INT" [] elementCount = 2 -> "INT2"
           [] elementCount = 3 -> "INT3" [] elementCount = 4 -> "INT4" [] OTHER -> INVALID
    ELSE IF componentType = "UINT32"
    THEN CASE elementCount = 1 -> "UINT" [] elementCount = 2 -> "UINT2"
           [] elementCount = 3 -> "UINT3" [] elementCount = 4 -> "UINT4" [] OTHER -> INVALID
    ELSE INVALID

\* std::sort(first, last, comp) with comp(a, b) == a[key] < b[key]: some rearrangement
\* of s in which no element is ordered before an earlier one; the order of elements
\* with equal keys is not specified
StdSort(s, key) ==
    {[i \in 1..Len(s) |-> s[p[i]]] :
        p \in {q \in Permutations(1..Len(s)) :
                  \A i, j \in 1..Len(s) : i < j => ~(s[q[j]][key] < s[q[i]][key])}}

----------------------------------------------------------------------------
(* ShaderReflection::SPIRVReflect *)

\* collectBindings: list is NULL when spvc_resources_get_resource_list_for_type fails
collectBindings(list) ==
    IF list = NULL THEN <<>>
    ELSE [i \in 1..Len(Deref(list)) |->
            [ShaderResourceInfo EXCEPT
                !.name = NameOf(Deref(list)[i].name),
                !.id = Deref(list)[i].id,
                !.set = Deref(list)[i].set,
                !.binding = Deref(list)[i].binding,
                !.count = 1]]

\* the push constant blocks; size: NULL when the type handle or the size query fails
collectPushConstants(list) ==
    IF list = NULL THEN <<>>
    ELSE [i \in 1..Len(Deref(list)) |->
            [name |-> NameOf(Deref(list)[i].name),
             size |-> IF Deref(list)[i].size # NULL
                      THEN (Deref(Deref(list)[i].size)) ELSE 0]]

\* the loop of collectStageIO: one entry per interface variable, in enumeration order
StageIOEntries(list) ==
    [i \in 1..Len(list) |->
        LET typeHandle == list[i].type
        IN  [ShaderStageIOInfo EXCEPT
                !.name = NameOf(list[i].name),
                !.id = list[i].id,
                !.location = list[i].location,
                !.vecSize = IF typeHandle # NULL THEN Deref(typeHandle).vecsize ELSE 0,
                !.columns = IF typeHandle # NULL THEN Deref(typeHandle).columns ELSE 0,
                !.format = IF typeHandle # NULL THEN IGNITE_MapSpvcType(typeHandle) ELSE INVALID]]

\* variant of collectStageIO: the entries are left in enumeration order
collectStageIOUnsorted(list) ==
    IF list = NULL THEN {<<>>} ELSE {StageIOEntries(Deref(list))}

\* collectStageIO: the possible contents of outIO
collectStageIO(list) ==
    IF list = NULL THEN {<<>>} ELSE StdSort(StageIOEntries(Deref(list)), "location")

\* variant of SpirvAttributeSize: the component size is left out
SpirvAttributeSizeLanes(input) == IF input.vecSize > 0 THEN input.vecSize ELSE 1

\* attributeSize = componentSize * elementCount
SpirvAttributeSize(input) == 4 * (IF input.vecSize > 0 THEN input.vecSize ELSE 1)

\* the loop over info.stageInputs that emits the vertex attributes
RECURSIVE SpirvLayoutLoop(_, _, _)
SpirvLayoutLoop(ins, offset, attrs) ==
    IF ins = <<>> THEN [offset |-> offset, attrs |-> attrs]
    ELSE LET input == Head(ins)
         IN  IF input.format = INVALID
             THEN SpirvLayoutLoop(Tail(ins), offset, attrs)
             ELSE SpirvLayoutLoop(Tail(ins), (offset + SpirvAttributeSize(input)),
                                  Append(attrs, [VertexAttribute EXCEPT
                                                    !.name = input.name,
                                                    !.format = input.format,
                                                    !.bufferIndex = 0,
                                                    !.offset = offset]))

\* variant of SetStride: every attribute gets the offset at which it ends
SetStrideOwnEnd(layout) ==
    [i \in 1..Len(layout.attrs) |->
        [layout.attrs[i] EXCEPT
            !.elementStride = IF i < Len(layout.attrs) THEN layout.attrs[i + 1].offset
                              ELSE layout.offset]]

\* stride = offset, stored in every attribute
SetStride(layout) ==
    [i \in 1..Len(layout.attrs) |-> [layout.attrs[i] EXCEPT !.elementStride = layout.offset]]

\* variant of SpirvVertexAttributes: every attribute gets a vertex buffer of its own
SpirvVertexAttributesOwnBuffer(stageInputs) ==
    LET attrs == SetStride(SpirvLayoutLoop(stageInputs, 0, <<>>))
    IN  [i \in 1..Len(attrs) |-> [attrs[i] EXCEPT !.bufferIndex = i - 1]]

SpirvVertexAttributes(stageInputs) == SetStride(SpirvLayoutLoop(stageInputs, 0, <<>>))

\* variant of SpirvLayoutWarnings: only the first unsupported input is reported
SpirvLayoutWarningsFirst(stageInputs) ==
    LET bad == SelectSeq(stageInputs, LAMBDA input : input.format = INVALID)
    IN  [i \in 1..(IF Len(bad) > 0 THEN 1 ELSE 0) |->
            LogEv("WARNING", "SPIRV reflection: unsupported vertex attribute format at location "
                             \o swprintf_u(bad[i].location))]

SpirvLayoutWarnings(stageInputs) ==
    LET bad == SelectSeq(stageInputs, LAMBDA input : input.format = INVALID)
    IN  [i \in 1..Len(bad) |->
            LogEv("WARNING", "SPIRV reflection: unsupported vertex attribute format at location "
                             \o swprintf_u(bad[i].location))]

\* be.failAt: the SPIRV-Cross step that fails ("none" when all succeed);
\* be.lists: per resource type, the list SPIRV-Cross returns (NULL when the query fails)
SPIRVReflect(type, size, be) ==
    LET empty == [ShaderReflectionInfo EXCEPT !.shaderType = type]
        create == <<Call("spvc_context_create", "")>>
        destroy == <<Call("spvc_context_destroy", "")>>
        parse == create \o <<Call("spvc_context_parse_spirv", size \div 4)>>
        compiler == parse \o <<Call("spvc_context_create_compiler", "")>>
        resources == compiler \o <<Call("spvc_compiler_create_shader_resources", "")>>
    IN  IF size % 4 # 0
        THEN {[info |-> empty,
               trace |-> <<LogEv("ERROR", "SPIRV reflection failed: shader blob size is not aligned to 4 bytes.")>>]}
        ELSE IF be.failAt = "context"
        THEN {[info |-> empty,
               trace |-> create \o <<LogEv("ERROR", "SPIRV reflection failed: could not create SPIRV-Cross context.")>>]}
        ELSE IF be.failAt = "parse"
        THEN {[info |-> empty,
               trace |-> parse \o <<LogEv("ERROR", "SPIRV reflection failed: could not parse SPIRV blob.")>>
                         \o destroy]}
        ELSE IF be.failAt = "compiler"
        THEN {[info |-> empty,
               trace |-> compiler \o <<LogEv("ERROR", "SPIRV reflection failed: could not create SPIRV-Cross compiler.")>>
                         \o destroy]}
        ELSE IF be.failAt = "resources"
        THEN {[info |-> empty,
               trace |-> resources \o <<LogEv("ERROR", "SPIRV reflection failed: could not create shader resources.")>>
                         \o destroy]}
        ELSE LET ub == collectBindings(be.lists.UNIFORM_BUFFER)
                 si == collectBindings(be.lists.SAMPLED_IMAGE)
                 sti == collectBindings(be.lists.STORAGE_IMAGE)
                 sb == collectBindings(be.lists.STORAGE_BUFFER)
                 ss == collectBindings(be.lists.SEPARATE_SAMPLERS)
                 sei == collectBindings(be.lists.SEPARATE_IMAGE)
                 pc == collectPushConstants(be.lists.PUSH_CONSTANT)
             IN  {[info |->
                      [empty EXCEPT
                          !.uniformBuffers = ub, !.sampledImages = si, !.storageImages = sti,
                          !.storageBuffers = sb, !.separateSamplers = ss, !.separateImages = sei,
                          !.numUniformBuffers = Len(ub), !.numSamplers = Len(si),
                          !.numStorageTextures = Len(sti), !.numStorageBuffers = Len(sb),
                          !.numSeparateSamplers = Len(ss), !.numSeparateImages = Len(sei),
                          !.pushConstants = pc, !.numPushConstants = Len(pc),
                          !.stageInputs = sin, !.stageOutputs = sout,
                          !.numStageInputs = Len(sin), !.numStageOutputs = Len(sout),
                          !.vertexAttributes = IF type = "VERTEX"
                                               THEN SpirvVertexAttributes(sin) ELSE <<>>],
                   trace |-> resources
                             \o (IF type = "VERTEX" THEN SpirvLayoutWarnings(sin) ELSE <<>>)
                             \o <<LogEv("INFO", "SPIRV reflection complete: ")>>
                             \o destroy] :
                    sin \in collectStageIO(be.lists.STAGE_INPUT),
                    sout \in collectStageIO(be.lists.STAGE_OUTPUT)}

----------------------------------------------------------------------------
(* ShaderReflection::DXILReflect *)

\* std::to_string of an unsigned value
to_string(n) == swprintf_u(n)

\* the loops that count the bits set in a component mask
RECURSIVE PopCount(_)
PopCount(mask) == IF mask = 0 THEN 0 ELSE (mask % 2) + PopCount(mask \div 2)

countMask(mask) == IF PopCount(mask) > 0 THEN PopCount(mask) ELSE 1

\* the indices (from 1) of the entries of s whose description can be read, in order
Readable(s) == SelectSeq([i \in 1..Len(s) |-> i], LAMBDA i : s[i].ok)

SemanticText(p) ==
    NameOf(p.SemanticName) \o (IF p.SemanticIndex > 0 THEN to_string(p.SemanticIndex) ELSE "")

\* the uniform buffer entry of constant buffer i (from 0), with its binding looked up by
\* name among the bound resources
DxilUniformBuffer(cb, i, bound) ==
    LET name == NameOf(cb.Name)
        hits == SelectSeq(bound, LAMBDA b : b.ok /\ b.Type = "CBUFFER" /\ b.Name # NULL
                                            /\ name = Deref(b.Name))
    IN  IF hits = <<>>
        THEN [ShaderResourceInfo EXCEPT !.name = name, !.id = i]
        ELSE [ShaderResourceInfo EXCEPT !.name = name, !.id = i,
                                        !.binding = hits[1].BindPoint,
                                        !.set = hits[1].Space,
                                        !.count = hits[1].BindCount]

DxilUniformBuffers(cbuffers, bound) ==
    LET idx == Readable(cbuffers)
    IN  [k \in 1..Len(idx) |-> DxilUniformBuffer(cbuffers[idx[k]], idx[k] - 1, bound)]

\* variant of UavTypes: the read-only structured and raw buffers are counted as well
UavTypesWithReadOnly ==
    {"UAV_RWTYPED", "UAV_RWSTRUCTURED", "UAV_RWBYTEADDRESS", "UAV_APPEND_STRUCTURED",
     "UAV_CONSUME_STRUCTURED", "UAV_RWSTRUCTURED_WITH_COUNTER", "UAV_FEEDBACKTEXTURE",
     "STRUCTURED", "BYTEADDRESS"}

UavTypes == {"UAV_RWTYPED", "UAV_RWSTRUCTURED", "UAV_RWBYTEADDRESS", "UAV_APPEND_STRUCTURED",
             "UAV_CONSUME_STRUCTURED", "UAV_RWSTRUCTURED_WITH_COUNTER", "UAV_FEEDBACKTEXTURE"}

\* the bound resources whose type tag is in tags, as resource entries
DxilBoundOfTypes(bound, tags) ==
    LET idx == SelectSeq(Readable(bound), LAMBDA i : bound[i].Type \in tags)
    IN  [k \in 1..Len(idx) |->
            [ShaderResourceInfo EXCEPT
                !.name = NameOf(bound[idx[k]].Name),
                !.id = idx[k] - 1,
                !.binding = bound[idx[k]].BindPoint,
                !.set = bound[idx[k]].Space,
                !.count = bound[idx[k]].BindCount]]

\* one stage-IO entry per signature parameter whose description can be read
DxilStageIO(params) ==
    LET idx == Readable(params)
    IN  [k \in 1..Len(idx) |->
            LET paramDesc == params[idx[k]]
                elementCount == PopCount(paramDesc.Mask)
                vecSize == IF elementCount > 0 THEN elementCount ELSE 1
            IN  [ShaderStageIOInfo EXCEPT
                    !.name = SemanticText(paramDesc),
                    !.id = idx[k] - 1,
                    !.location = paramDesc.Register,
                    !.columns = 1,
                    !.vecSize = vecSize,
                    !.format = IGNITE_Map3DComponent(paramDesc.ComponentType, vecSize)]]

\* the InputAttribute list filled next to info.stageInputs
DxilInputAttributes(params) ==
    LET idx == Readable(params)
    IN  [k \in 1..Len(idx) |->
            [registerIndex |-> params[idx[k]].Register,
             semanticName |-> NameOf(params[idx[k]].SemanticName),
             semanticIndex |-> params[idx[k]].SemanticIndex,
             mask |-> params[idx[k]].Mask,
             componentType |-> params[idx[k]].ComponentType]]

\* attributeSize = componentSize * elementCount
DxilAttributeSize(input) == 4 * countMask(input.mask)

\* the loop over the sorted inputs that emits the vertex attributes
RECURSIVE DxilLayoutLoop(_, _, _)
DxilLayoutLoop(ins, offset, attrs) ==
    IF ins = <<>> THEN [offset |-> offset, attrs |-> attrs]
    ELSE LET input == Head(ins)
             elementFormat == IGNITE_Map3DComponent(input.componentType, countMask(input.mask))
         IN  IF elementFormat = INVALID
             THEN DxilLayoutLoop(Tail(ins), offset, attrs)
             ELSE DxilLayoutLoop(Tail(ins), (offset + DxilAttributeSize(input)),
                                 Append(attrs, [VertexAttribute EXCEPT
                                                   !.name = input.semanticName
                                                            \o (IF input.semanticIndex > 0
                                                                THEN to_string(input.semanticIndex)
                                                                ELSE ""),
                                                   !.format = elementFormat,
                                                   !.offset = offset,
                                                   !.bufferIndex = 0]))

DxilVertexAttributes(sorted) == SetStride(DxilLayoutLoop(sorted, 0, <<>>))

DxilLayoutWarnings(sorted) ==
    LET bad == SelectSeq(sorted, LAMBDA input :
                   IGNITE_Map3DComponent(input.componentType, countMask(input.mask)) = INVALID)
    IN  [i \in 1..Len(bad) |->
            LogEv("WARNING", "DXIL reflection: unsupported vertex input format for semantic "
                             \o bad[i].semanticName)]

\* the steps of the container-based extraction, in order
DxilContainerSteps ==
    <<Call("DxcCreateInstance", "CLSID_DxcUtils"), Call("CreateBlob", ""),
      Call("DxcCreateInstance", "CLSID_DxcContainerReflection"), Call("Load", ""),
      Call("FindFirstPartKind", "DXC_PART_DXIL"), Call("GetPartReflection", "")>>

\* the number of steps made when the named step is the one that fails ("part": the part
\* reflection fails or yields no interface)
DxilContainerFailure ==
    [utils |-> 1, blob |-> 2, reflection |-> 3, load |-> 4, nopart |-> 5, part |-> 6]

\* the container-based extraction; be.container: "ok", or the step that fails
DxilContainerCalls(be) ==
    IF be.container = "ok" THEN DxilContainerSteps
    ELSE SubSeq(DxilContainerSteps, 1, DxilContainerFailure[be.container])

\* variant of DxilObtainCalls: the legacy reflection is called in any case
DxilObtainCallsAlwaysLegacy(be) == DxilContainerCalls(be) \o <<Call("D3DReflect", "")>>

\* obtaining the reflection interface: the container first, D3DReflect on the raw
\* bytecode when that failed or left no interface
DxilObtainCalls(be) ==
    DxilContainerCalls(be) \o (IF be.container # "ok" THEN <<Call("D3DReflect", "")>> ELSE <<>>)

\* h: the host the library is built for; be.legacy: D3DReflect succeeds;
\* be.desc: GetDesc succeeds; be.shader: what the reflection handle reports
DXILReflect(type, size, h, be) ==
    LET empty == [ShaderReflectionInfo EXCEPT !.shaderType = type]
    IN  IF h # "windows"
        THEN {[info |-> empty, inputs |-> <<>>,
               trace |-> <<LogEv("WARNING", "DXIL reflection is only available on Windows platform")>>]}
        ELSE IF size = 0 \/ size < 4
        THEN {[info |-> empty, inputs |-> <<>>,
               trace |-> <<LogEv("ERROR", "DXIL reflection failed: shader blob is empty or too small.")>>]}
        ELSE LET obtain == DxilObtainCalls(be)
             IN  IF be.container # "ok" /\ ~be.legacy
                 THEN {[info |-> empty, inputs |-> <<>>,
                        trace |-> obtain \o <<LogEv("ERROR", "DXIL reflection failed. HRESULT=")>>]}
                 ELSE IF ~be.desc
                 THEN {[info |-> empty, inputs |-> <<>>,
                        trace |-> obtain \o <<Call("GetDesc", ""),
                                  LogEv("ERROR", "DXIL reflection failed while reading shader description. HRESULT=")>>]}
                 ELSE LET sd == be.shader
                          ub == DxilUniformBuffers(sd.ConstantBuffers, sd.BoundResources)
                          si == DxilBoundOfTypes(sd.BoundResources, {"TEXTURE"})
                          ss == DxilBoundOfTypes(sd.BoundResources, {"SAMPLER"})
                          sb == DxilBoundOfTypes(sd.BoundResources, UavTypes)
                          ins == IF type = "VERTEX"
                                 THEN DxilInputAttributes(sd.InputParameters) ELSE <<>>
                      IN  {[info |->
                               [empty EXCEPT
                                   !.uniformBuffers = ub, !.sampledImages = si,
                                   !.separateSamplers = ss, !.storageBuffers = sb,
                                   !.numUniformBuffers = Len(ub), !.numSamplers = Len(si),
                                   !.numStorageTextures = 0, !.numStorageBuffers = Len(sb),
                                   !.numSeparateSamplers = Len(ss), !.numSeparateImages = 0,
                                   !.numPushConstants = 0,
                                   !.stageInputs = sin, !.stageOutputs = sout,
                                   !.numStageInputs = Len(sin), !.numStageOutputs = Len(sout),
                                   !.vertexAttributes = DxilVertexAttributes(sorted)],
                            inputs |-> sorted,
                            trace |-> obtain
                                      \o <<Call("GetDesc", ""), LogEv("INFO", "DXIL reflection: ")>>
                                      \o DxilLayoutWarnings(sorted)
                                      \o <<LogEv("INFO", "DXIL reflection complete: ")>>] :
                             sin \in StdSort(DxilStageIO(sd.InputParameters), "location"),
                             sout \in StdSort(DxilStageIO(sd.OutputParameters), "location"),
                             sorted \in StdSort(ins, "registerIndex")}

----------------------------------------------------------------------------
(* C reflection entry points *)

\* memset(outReflectionInfo, 0, sizeof(*outReflectionInfo))
ZeroCReflectionInfo ==
    [shaderType |-> "VERTEX",
     numUniformBuffers |-> 0, numSamplers |-> 0, numStorageTextures |-> 0,
     numStorageBuffers |-> 0, numSeparateSamplers |-> 0, numSeparateImages |-> 0,
     numPushConstants |-> 0, numStageInputs |-> 0, numStageOutputs |-> 0,
     uniformBuffers |-> NULL, sampledImages |-> NULL, storageImages |-> NULL,
     storageBuffers |-> NULL, separateSamplers |-> NULL, separateImages |-> NULL,
     pushConstants |-> NULL, stageInputs |-> NULL, stageOutputs |-> NULL,
     vertexAttributes |-> NULL, vertexAttributeCount |-> 0]

\* the arrays of the C structure in the order FillCReflectionInfo fills them
CArrayOrder == <<"uniformBuffers", "sampledImages", "storageImages", "storageBuffers",
                 "separateSamplers", "separateImages", "pushConstants", "stageInputs",
                 "stageOutputs", "vertexAttributes">>

\* FillResourceArray, FillPushConstantArray, FillStageIOArray, FillVertexArray:
\* NULL for an empty source, else a calloc'ed copy with duplicated names;
\* calloc: whether the allocation of the array succeeds
FillArray(source, calloc) ==
    IF source = <<>> THEN [ok |-> TRUE, array |-> NULL]
    ELSE IF ~calloc THEN [ok |-> FALSE, array |-> NULL]
    ELSE [ok |-> TRUE,
          array |-> Ptr([i \in 1..Len(source) |-> [source[i] EXCEPT !.name = Ptr(source[i].name)]])]

\* the chain of Fill calls from the k-th array on; allocFail: the position in
\* CArrayOrder of the array whose allocation fails (0: none fails)
RECURSIVE FillFrom(_, _, _, _)
FillFrom(k, reflection, out, allocFail) ==
    IF k > Len(CArrayOrder) THEN [result |-> "OK", out |-> out]
    ELSE LET f == FillArray(reflection[CArrayOrder[k]], k # allocFail)
             filled == [out EXCEPT ![CArrayOrder[k]] = f.array]
         IN  IF ~f.ok THEN [result |-> "INTERNAL_ERROR", out |-> filled]
             ELSE FillFrom(k + 1, reflection, filled, allocFail)

FillCReflectionInfo(reflection, out, allocFail) ==
    FillFrom(1, reflection,
             [out EXCEPT
                 !.shaderType = reflection.shaderType,
                 !.numUniformBuffers = reflection.numUniformBuffers,
                 !.numSamplers = reflection.numSamplers,
                 !.numStorageTextures = reflection.numStorageTextures,
                 !.numStorageBuffers = reflection.numStorageBuffers,
                 !.numSeparateSamplers = reflection.numSeparateSamplers,
                 !.numSeparateImages = reflection.numSeparateImages,
                 !.numPushConstants = reflection.numPushConstants,
                 !.numStageInputs = reflection.numStageInputs,
                 !.numStageOutputs = reflection.numStageOutputs,
                 !.vertexAttributeCount = Len(reflection.vertexAttributes)],
             allocFail)

\* the count field IgniteCompiler_FreeReflectionInfo passes along with each array
CArrayCount ==
    [uniformBuffers |-> "numUniformBuffers", sampledImages |-> "numSamplers",
     storageImages |-> "numStorageTextures", storageBuffers |-> "numStorageBuffers",
     separateSamplers |-> "numSeparateSamplers", separateImages |-> "numSeparateImages",
     pushConstants |-> "numPushConstants", stageInputs |-> "numStageInputs",
     stageOutputs |-> "numStageOutputs", vertexAttributes |-> "vertexAttributeCount"]

\* FreeResourceArray, FreeStageIOArray, FreePushConstantArray, FreeVertexAttributeArray:
\* the std::free calls that release a block (free of a null name releases nothing);
\* an index past the end of the array reads a pointer that was never stored
FreeArray(field, array, count) ==
    IF array = NULL THEN <<>>
    ELSE LET names == [i \in 1..count |->
                          IF i > Len(Deref(array))
                          THEN Call("free", field \o "[" \o swprintf_u(i - 1) \o "] out of bounds")
                          ELSE IF Deref(array)[i].name = NULL THEN Call("free", "NULL")
                          ELSE Call("free", field \o "[" \o swprintf_u(i - 1) \o "].name")]
         IN  SelectSeq(names, LAMBDA c : c.data # "NULL") \o <<Call("free", field)>>

\* the std::free calls of IgniteCompiler_FreeReflectionInfo, in call order
FreeReflectionInfoCalls(reflectionInfo) ==
    Flatten([k \in 1..Len(CArrayOrder) |->
                FreeArray(CArrayOrder[k], reflectionInfo[CArrayOrder[k]],
                          reflectionInfo[CArrayCount[CArrayOrder[k]]])])

\* variant of IgniteCompiler_FreeReflectionInfo: the structure is not cleared
IgniteCompiler_FreeReflectionInfoNoClear(reflectionInfo) == reflectionInfo

\* the structure after IgniteCompiler_FreeReflectionInfo
IgniteCompiler_FreeReflectionInfo(reflectionInfo) == ZeroCReflectionInfo

\* variant of ReflectEpilogue: a partly filled structure is handed back as it is
ReflectEpilogueKeepPartial(r, allocFail) ==
    LET f == FillCReflectionInfo(r.info, ZeroCReflectionInfo, allocFail)
    IN  [result |-> f.result, out |-> f.out, trace |-> <<>>]

\* in place of the position of a failing array allocation: an allocation inside the
\* reflection fails and std::bad_alloc reaches the entry point's catch (...)
OperatorNewThrows == 0 - 1

\* catch (...): the structure, zeroed at entry, is released and the error returned
ReflectCatch ==
    [result |-> "INTERNAL_ERROR",
     out |-> IgniteCompiler_FreeReflectionInfo(ZeroCReflectionInfo),
     info |-> ShaderReflectionInfo, inputs |-> <<>>,
     trace |-> FreeReflectionInfoCalls(ZeroCReflectionInfo)]

\* variant of ReflectEpilogue: on failure the structure is cleared, nothing is freed
ReflectEpilogueClearOnly(r, allocFail) ==
    LET f == FillCReflectionInfo(r.info, ZeroCReflectionInfo, allocFail)
    IN  [result |-> f.result,
         out |-> IF f.result # "OK" THEN ZeroCReflectionInfo ELSE f.out,
         trace |-> <<>>]

\* the tail shared by both entry points: flatten r.info, release on failure
ReflectEpilogue(r, allocFail) ==
    LET f == FillCReflectionInfo(r.info, ZeroCReflectionInfo, allocFail)
    IN  [result |-> f.result,
         out |-> IF f.result # "OK" THEN IgniteCompiler_FreeReflectionInfo(f.out) ELSE f.out,
         trace |-> IF f.result # "OK" THEN FreeReflectionInfoCalls(f.out) ELSE <<>>]

\* variant of IgniteCompiler_ReflectSPIRV: the structure is cleared before the arguments
\* are checked
IgniteCompiler_ReflectSPIRVClearFirst(data, sizeInBytes, shaderType, out, prior, be, allocFail) ==
    IF data = NULL \/ sizeInBytes = 0 \/ out = NULL
    THEN {[result |-> "INVALID_ARGUMENT",
           out |-> IF out # NULL THEN ZeroCReflectionInfo ELSE prior,
           info |-> ShaderReflectionInfo, inputs |-> <<>>, trace |-> <<>>]}
    ELSE IF allocFail = OperatorNewThrows THEN {ReflectCatch}
    ELSE {[result |-> ReflectEpilogue(r, allocFail).result,
           out |-> ReflectEpilogue(r, allocFail).out,
           info |-> r.info, inputs |-> <<>>,
           trace |-> r.trace \o ReflectEpilogue(r, allocFail).trace] :
             r \in SPIRVReflect(shaderType, sizeInBytes, be)}

\* data, out: NULL or a pointer; prior: the caller's structure before the call
IgniteCompiler_ReflectSPIRV(data, sizeInBytes, shaderType, out, prior, be, allocFail) ==
    IF data = NULL \/ sizeInBytes = 0 \/ out = NULL
    THEN {[result |-> "INVALID_ARGUMENT", out |-> prior, info |-> ShaderReflectionInfo,
           inputs |-> <<>>, trace |-> <<>>]}
    ELSE IF allocFail = OperatorNewThrows THEN {ReflectCatch}
    ELSE {[result |-> ReflectEpilogue(r, allocFail).result,
           out |-> ReflectEpilogue(r, allocFail).out,
           info |-> r.info, inputs |-> <<>>,
           trace |-> r.trace \o ReflectEpilogue(r, allocFail).trace] :
             r \in SPIRVReflect(shaderType, sizeInBytes, be)}

IgniteCompiler_ReflectDXIL(data, sizeInBytes, shaderType, out, prior, h, be, allocFail) ==
    IF data = NULL \/ sizeInBytes = 0 \/ out = NULL
    THEN {[result |-> "INVALID_ARGUMENT", out |-> prior, info |-> ShaderReflectionInfo,
           inputs |-> <<>>, trace |-> <<>>]}
    ELSE IF allocFail = OperatorNewThrows THEN {ReflectCatch}
    ELSE {[result |-> ReflectEpilogue(r, allocFail).result,
           out |-> ReflectEpilogue(r, allocFail).out,
           info |-> r.info, inputs |-> r.inputs,
           trace |-> r.trace \o ReflectEpilogue(r, allocFail).trace] :
             r \in DXILReflect(shaderType, sizeInBytes, h, be)}

----------------------------------------------------------------------------
(* Inputs: the requests callers make and what the native backends answer *)

ShaderModels == {<<"5", "_", "1">>, <<"6", "_", "0">>, <<"6", "_", "1">>, <<"6", "_", "2">>,
                 <<"6", "_", "5">>, <<"7", "_", "0">>}

\* tRegShift, sRegShift, bRegShift, uRegShift
RegShiftChoices == {<<0, 128, 256, 384>>, <<0, 0, 0, 0>>, <<7, 300, 2, 2147483647>>}

FlagChoices == {{}, {"verbose"}, FlagNames}

\* the remaining option lists, chosen together
ExtraChoices ==
    {[shaderType |-> "VERTEX", vulkanMemoryLayout |-> "", spirvExtensions |-> CompilerOptions.spirvExtensions,
      defines |-> <<>>, includeDirectories |-> <<>>, compilerOptions |-> <<>>],
     [shaderType |-> "PIXEL", vulkanMemoryLayout |-> "scalar", spirvExtensions |-> <<>>,
      defines |-> <<<<"A", "=", "1">>, <<"B">>>>, includeDirectories |-> <<"inc">>,
      compilerOptions |-> << <<"-", "Z", "i", " ", " ", "\"", "a", " ", "b", "\"", "\\", " ", "c">>,
                             <<"\\", "\"", "q", "\\", "\\", " ", "\"", "\"", " ", "x", "\\">> >>],
     [shaderType |-> "VERTEX", vulkanMemoryLayout |-> "", spirvExtensions |-> <<>>,
      defines |-> <<>>, includeDirectories |-> <<>>,
      compilerOptions |-> << <<"-", "Q", "s", "t", "r", "i", "p", "_", "r", "e", "f", "l", "e",
                               "c", "t", " ", "-", "s", "p", "i", "r", "v">> >>]}

MakeOptions(platform, ext, shifts, extra, model, level, flags) ==
    [f \in FlagNames |-> f \in flags] @@
    [CompilerOptions EXCEPT
        !.platformType = platform,
        !.filepath = Path("quad.vertex", ext),
        !.tRegShift = shifts[1], !.sRegShift = shifts[2],
        !.bRegShift = shifts[3], !.uRegShift = shifts[4],
        !.spirvExtensions = extra.spirvExtensions,
        !.defines = extra.defines,
        !.includeDirectories = extra.includeDirectories,
        !.compilerOptions = extra.compilerOptions,
        !.shaderDesc = [ShaderDesc EXCEPT
            !.shaderType = extra.shaderType, !.shaderModel = model, !.optLevel = level,
            !.vulkanMemoryLayout = extra.vulkanMemoryLayout]]

DxcOptionsSet ==
    {MakeOptions(platform, ".hlsl", shifts, extra, model, level, flags) :
        platform \in PlatformTypes, shifts \in RegShiftChoices, extra \in ExtraChoices,
        model \in ShaderModels, level \in OptLevels, flags \in FlagChoices}

GlslOptionsSet ==
    {MakeOptions(platform, ".glsl", <<0, 128, 256, 384>>, extra, <<"6", "_", "5">>, level,
                 flags) :
        platform \in PlatformTypes, extra \in ExtraChoices, level \in OptLevels,
        flags \in FlagChoices}

DxcBackends == {[load |-> FALSE, compile |-> TRUE], [load |-> TRUE, compile |-> FALSE],
                [load |-> TRUE, compile |-> TRUE]}
GlslBackends == [read : BOOLEAN, status : {"success", "error"}, warnings : BOOLEAN]
AllSucceed ==
    [create |-> TRUE, load |-> TRUE, compile |-> TRUE, read |-> TRUE, status |-> "success",
     warnings |-> FALSE]
\* every native call succeeds, or exactly one of them does not
CompileBackends ==
    {AllSucceed, [AllSucceed EXCEPT !.create = FALSE], [AllSucceed EXCEPT !.load = FALSE],
     [AllSucceed EXCEPT !.compile = FALSE], [AllSucceed EXCEPT !.read = FALSE],
     [AllSucceed EXCEPT !.status = "error"], [AllSucceed EXCEPT !.warnings = TRUE]}

\* IgniteCompileRequest request = {0}
ZeroRequest ==
    [inputPath |-> NULL, outputDirectory |-> NULL, entryPoint |-> NULL, shaderModel |-> NULL,
     vulkanVersion |-> NULL, vulkanMemoryLayout |-> NULL,
     shaderType |-> "VERTEX", platformType |-> "DXBC", optimizationLevel |-> 0,
     warningsAreErrors |-> 0, allResourcesBound |-> 0, stripReflection |-> 0,
     matrixRowMajor |-> 0, hlsl2021 |-> 0, embedPdb |-> 0, pdb |-> 0, verbose |-> 0,
     tRegShift |-> 0, sRegShift |-> 0, bRegShift |-> 0, uRegShift |-> 0]

RequestStrings ==
    {[outputDirectory |-> NULL, entryPoint |-> NULL, vulkanVersion |-> NULL,
      vulkanMemoryLayout |-> NULL],
     [outputDirectory |-> Ptr("out"), entryPoint |-> Ptr(""), vulkanVersion |-> Ptr("1.1"),
      vulkanMemoryLayout |-> Ptr("scalar")]}

RequestSet ==
    {[f \in FlagNames |-> IF f \in flags THEN 1 ELSE 0] @@ strings @@
     [ZeroRequest EXCEPT
        !.inputPath = path, !.shaderModel = model, !.platformType = platform,
        !.optimizationLevel = level,
        !.tRegShift = shifts[1], !.sRegShift = shifts[2],
        !.bRegShift = shifts[3], !.uRegShift = shifts[4]] :
        path \in {NULL, Ptr(Path("", "")), Ptr(Path("quad.vertex", ".hlsl")),
                  Ptr(Path("imgui.pixel", ".GLSL"))},
        model \in {NULL, Ptr(<<>>), Ptr(<<"6", "_", "0">>), Ptr(<<"6", "_", "2">>)},
        platform \in PlatformTypes, level \in OptLevels, shifts \in RegShiftChoices,
        flags \in {{}, FlagNames}, strings \in RequestStrings}

\* byte sizes of the code handed to reflection; WholeCode is the only one the
\* full range of backends is paired with
WholeCode == 2 * 4
CodeSizes == {0, 3, 6, WholeCode}
ReflectTypes == {"VERTEX", "PIXEL"}

SpvVar(id, name, location, type) ==
    [id |-> id, name |-> name, location |-> location, type |-> type]

\* the stage inputs a SPIR-V module may declare
SpvInputPool ==
    {SpvVar(1, Ptr("aPosition"), 0, Ptr(SpvcType("FP32", 2, 1))),
     SpvVar(2, Ptr("aTexCoord"), 1, Ptr(SpvcType("FP32", 2, 1))),
     SpvVar(3, Ptr("aIndices"), 1, Ptr(SpvcType("INT32", 3, 1))),
     SpvVar(4, Ptr("aTransform"), 2, Ptr(SpvcType("FP32", 4, 4))),
     SpvVar(5, NULL, 0, NULL)}

SpvOutputPool ==
    {SpvVar(20, Ptr("vColor"), 1, Ptr(SpvcType("FP32", 4, 1))),
     SpvVar(21, Ptr("vTexCoord"), 0, Ptr(SpvcType("FP32", 2, 1)))}

DistinctSeqs(S, n) == {s \in SeqsUpTo(S, n) : Distinct(s)}

SpvBinding(name, id, set, binding) == [name |-> name, id |-> id, set |-> set, binding |-> binding]

NoSpvLists ==
    [UNIFORM_BUFFER |-> Ptr(<<>>), SAMPLED_IMAGE |-> Ptr(<<>>), STORAGE_IMAGE |-> Ptr(<<>>),
     STORAGE_BUFFER |-> Ptr(<<>>), SEPARATE_SAMPLERS |-> Ptr(<<>>), SEPARATE_IMAGE |-> Ptr(<<>>),
     PUSH_CONSTANT |-> Ptr(<<>>), STAGE_INPUT |-> Ptr(<<>>), STAGE_OUTPUT |-> Ptr(<<>>)]

\* the resources a SPIR-V module may declare, chosen together
SpvResourceChoices ==
    {NoSpvLists,
     [NoSpvLists EXCEPT
        !.UNIFORM_BUFFER = Ptr(<<SpvBinding(Ptr("Camera"), 10, 0, 0)>>),
        !.SAMPLED_IMAGE = Ptr(<<SpvBinding(Ptr("textures"), 11, 0, 1)>>),
        !.STORAGE_BUFFER = NULL,
        !.PUSH_CONSTANT = Ptr(<<[name |-> Ptr("pc"), size |-> Ptr(64)]>>)],
     [NoSpvLists EXCEPT
        !.UNIFORM_BUFFER = Ptr(<<SpvBinding(Ptr("Camera"), 10, 0, 0),
                                 SpvBinding(Ptr("Light"), 12, 1, 0)>>),
        !.STORAGE_IMAGE = Ptr(<<SpvBinding(Ptr("image"), 13, 0, 2)>>),
        !.STORAGE_BUFFER = Ptr(<<SpvBinding(NULL, 14, 2, 0)>>),
        !.SEPARATE_SAMPLERS = Ptr(<<SpvBinding(Ptr("samp"), 15, 0, 3)>>),
        !.SEPARATE_IMAGE = Ptr(<<SpvBinding(Ptr("tex"), 16, 0, 4)>>),
        !.PUSH_CONSTANT = Ptr(<<[name |-> NULL, size |-> NULL]>>)]}

SpvFailures ==
    {[failAt |-> f, lists |-> NoSpvLists] : f \in {"context", "parse", "compiler", "resources"}}

SpvBackends ==
    SpvFailures \cup
    {[failAt |-> "none",
      lists |-> [res EXCEPT !.STAGE_INPUT = sin, !.STAGE_OUTPUT = sout]] :
        res \in SpvResourceChoices,
        sin \in {NULL} \cup {Ptr(s) : s \in DistinctSeqs(SpvInputPool, MaxIO)},
        sout \in {Ptr(s) : s \in DistinctSeqs(SpvOutputPool, MaxOut)}}

SigParam(ok, name, index, register, mask, componentType) ==
    [ok |-> ok, SemanticName |-> name, SemanticIndex |-> index, Register |-> register,
     Mask |-> mask, ComponentType |-> componentType]

\* the input signature parameters a DXIL shader may declare
DxilInputPool ==
    {SigParam(TRUE, Ptr("POSITION"), 0, 0, 3, "FLOAT32"),
     SigParam(TRUE, Ptr("TEXCOORD"), 0, 1, 3, "FLOAT32"),
     SigParam(TRUE, Ptr("NORMAL"), 1, 1, 7, "FLOAT32"),
     SigParam(TRUE, NULL, 0, 0, 0, "UNKNOWN"),
     SigParam(FALSE, Ptr("COLOR"), 0, 3, 15, "FLOAT32")}

DxilOutputPool ==
    {SigParam(TRUE, Ptr("SV_Position"), 0, 1, 15, "FLOAT32"),
     SigParam(TRUE, Ptr("TEXCOORD"), 2, 0, 3, "FLOAT32")}

BindDesc(ok, name, type, bindPoint, space, bindCount) ==
    [ok |-> ok, Name |-> name, Type |-> type, BindPoint |-> bindPoint, Space |-> space,
     BindCount |-> bindCount]

\* the constant buffers and bound resources a DXIL shader may declare, chosen together
DxilResourceChoices ==
    {[ConstantBuffers |-> <<>>, BoundResources |-> <<>>],
     [ConstantBuffers |-> <<[ok |-> TRUE, Name |-> Ptr("Camera")]>>,
      BoundResources |-> <<BindDesc(TRUE, Ptr("tex"), "TEXTURE", 0, 0, 1),
                           BindDesc(TRUE, Ptr("Camera"), "CBUFFER", 2, 1, 1),
                           BindDesc(TRUE, Ptr("samp"), "SAMPLER", 0, 0, 1),
                           BindDesc(TRUE, Ptr("rw"), "UAV_RWTYPED", 1, 0, 4)>>],
     [ConstantBuffers |-> <<[ok |-> FALSE, Name |-> Ptr("Hidden")], [ok |-> TRUE, Name |-> NULL]>>,
      BoundResources |-> <<BindDesc(FALSE, Ptr("lost"), "TEXTURE", 0, 0, 1),
                           BindDesc(TRUE, Ptr("sb"), "STRUCTURED", 3, 0, 1),
                           BindDesc(TRUE, NULL, "UAV_RWSTRUCTURED_WITH_COUNTER", 0, 0, 1),
                           BindDesc(TRUE, Ptr("tb"), "TBUFFER", 4, 0, 1),
                           BindDesc(TRUE, Ptr("rws"), "UAV_RWSTRUCTURED", 1, 0, 1),
                           BindDesc(TRUE, Ptr("raw"), "BYTEADDRESS", 5, 0, 1),
                           BindDesc(TRUE, Ptr("rwraw"), "UAV_RWBYTEADDRESS", 2, 0, 1),
                           BindDesc(TRUE, Ptr("app"), "UAV_APPEND_STRUCTURED", 3, 0, 1),
                           BindDesc(TRUE, Ptr("con"), "UAV_CONSUME_STRUCTURED", 4, 0, 1),
                           BindDesc(TRUE, Ptr("tlas"), "RTACCELERATIONSTRUCTURE", 6, 0, 1),
                           BindDesc(TRUE, Ptr("fb"), "UAV_FEEDBACKTEXTURE", 5, 0, 1)>>]}

NoDxilShader ==
    [ConstantBuffers |-> <<>>, BoundResources |-> <<>>, InputParameters |-> <<>>,
     OutputParameters |-> <<>>]

DxilFailures ==
    {[container |-> "load", legacy |-> FALSE, desc |-> TRUE, shader |-> NoDxilShader],
     [container |-> "nopart", legacy |-> FALSE, desc |-> TRUE, shader |-> NoDxilShader],
     [container |-> "ok", legacy |-> FALSE, desc |-> FALSE, shader |-> NoDxilShader],
     [container |-> "load", legacy |-> TRUE, desc |-> FALSE, shader |-> NoDxilShader]}
    \cup {[container |-> c, legacy |-> l, desc |-> TRUE, shader |-> NoDxilShader] :
             c \in {"utils", "blob", "reflection", "part"}, l \in BOOLEAN}

DxilBackends ==
    DxilFailures \cup
    {[container |-> c, legacy |-> TRUE, desc |-> TRUE,
      shader |-> [ConstantBuffers |-> res.ConstantBuffers,
                  BoundResources |-> res.BoundResources,
                  InputParameters |-> sin, OutputParameters |-> sout]] :
        c \in {"ok", "nopart"},
        res \in DxilResourceChoices,
        sin \in DistinctSeqs(DxilInputPool, MaxIO),
        sout \in DistinctSeqs(DxilOutputPool, MaxOut)}

\* the full range of backends for a whole module, the failing ones and one
\* working one for the other sizes
SpvBackendsFor(size) ==
    IF size = WholeCode THEN SpvBackends
    ELSE SpvFailures \cup
         {[failAt |-> "none",
           lists |-> [NoSpvLists EXCEPT
                         !.STAGE_INPUT = Ptr(<<SpvVar(1, Ptr("aPosition"), 0,
                                                     Ptr(SpvcType("FP32", 2, 1)))>>)]]}

DxilBackendsFor(size) ==
    IF size = WholeCode THEN DxilBackends
    ELSE DxilFailures \cup
         {[container |-> "ok", legacy |-> FALSE, desc |-> TRUE,
           shader |-> [NoDxilShader EXCEPT
                          !.InputParameters = <<SigParam(TRUE, Ptr("POSITION"), 0, 0, 3,
                                                         "FLOAT32")>>]]}

\* a structure still holding the result of an earlier reflect call
StaleCReflectionInfo ==
    FillCReflectionInfo(
        [ShaderReflectionInfo EXCEPT
            !.shaderType = "PIXEL",
            !.stageOutputs = <<[ShaderStageIOInfo EXCEPT
                                   !.name = "oColor", !.id = 9, !.location = 0,
                                   !.format = "FLOAT4", !.vecSize = 4, !.columns = 1]>>,
            !.numStageOutputs = 1],
        ZeroCReflectionInfo, 0).out

\* what the caller's structure holds before a call: zero-initialised, or an earlier result
OutInfoChoices == {ZeroCReflectionInfo, StaleCReflectionInfo}

\* the pointer and size arguments of the C reflection entry points; out: NULL, or a
\* pointer to the caller's structure with what it holds before the call
ReflectArguments ==
    {[data |-> NULL, size |-> WholeCode, out |-> Ptr(prior)] : prior \in OutInfoChoices}
    \cup {[data |-> Ptr("code"), size |-> WholeCode, out |-> NULL]}
    \cup {[data |-> Ptr("code"), size |-> n, out |-> Ptr(ZeroCReflectionInfo)] : n \in CodeSizes}
    \cup {[data |-> Ptr("code"), size |-> n, out |-> Ptr(StaleCReflectionInfo)] :
             n \in CodeSizes \ {WholeCode}}

\* the position in CArrayOrder of the array whose allocation fails (0: none), or an
\* exception inside the reflection
AllocFailChoices == {0, 1, 10, OperatorNewThrows}

\* the DXIL entry point shares the flattening: the last array and the exception
DxilAllocFailChoices == {0, 10, OperatorNewThrows}

\* the failure happens in the call: the array is not empty, so that its allocation is
\* requested; the exception is tried with the backends used for a truncated module
AllocFailHappens(failing, r, be, few) ==
    IF failing = OperatorNewThrows THEN r.result = "INTERNAL_ERROR" /\ be \in few
    ELSE failing > 0 => r.info[CArrayOrder[failing]] # <<>>

----------------------------------------------------------------------------
(* The state machine: one action per public call *)

\* base types SPIRV-Cross may report for an interface variable
SpvcBaseTypes == {"FP32", "INT32", "UINT32", "FP16", "FP64", "BOOLEAN", "INT64", "STRUCT"}

\* type handles handed to IGNITE_MapSpvcType
SpvcTypeHandles ==
    {NULL} \cup {Ptr(SpvcType(b, v, c)) : b \in SpvcBaseTypes, v \in 0..MaxWidth, c \in 1..4}

\* D3D_REGISTER_COMPONENT_TYPE values
D3DComponentTypes == {"UNKNOWN", "UINT32", "SINT32", "FLOAT32", "FLOAT16"}

\* ShaderCompiler::SetLogCallback: the sink's two globals after the call
SetLogCallback(callback, userData) == [g_logCallback |-> callback, g_logUserData |-> userData]

\* ShaderCompiler::ClearLogCallback
ClearLogCallback == [g_logCallback |-> NULL, g_logUserData |-> NULL]

\* IgniteCompiler_SetLogCallback: the bridge is written first, then the sink is cleared
\* (null callback) or pointed at CLogBridge with the bridge's address as user data
IgniteCompiler_SetLogCallback(callback, userData) ==
    LET bridge == [callback |-> callback, userData |-> userData]
        global == IF callback = NULL THEN ClearLogCallback
                  ELSE SetLogCallback(Ptr("CLogBridge"), Ptr("g_logBridge"))
    IN  [g_logBridge |-> bridge,
         g_logCallback |-> global.g_logCallback,
         g_logUserData |-> global.g_logUserData]

\* one invocation of a caller's callback
Invocation(callback, type, message, userData) ==
    [callback |-> callback, type |-> type, message |-> message, userData |-> userData]

\* a bridge that forwards the sink's own user data instead of the C caller's
CLogBridgeOwnUserData(type, message, userData, bridgeContext) ==
    IF userData = NULL \/ bridgeContext.callback = NULL THEN <<>>
    ELSE <<Invocation(bridgeContext.callback, type, message, userData)>>

\* CLogBridge: userData is the address of the bridge context, whose content at the time
\* of the call is bridgeContext
CLogBridge(type, message, userData, bridgeContext) ==
    LET bridge == IF userData = NULL THEN NULL ELSE Ptr(bridgeContext)
    IN  IF bridge = NULL \/ Deref(bridge).callback = NULL THEN <<>>
        ELSE <<Invocation(Deref(bridge).callback, type, message, Deref(bridge).userData)>>

\* DispatchLog: the callback invocations one message leads to
DispatchLog(type, message, callback, userData, bridgeContext) ==
    IF callback = NULL THEN <<>>
    ELSE IF callback = Ptr("CLogBridge") THEN CLogBridge(type, message, userData, bridgeContext)
    ELSE <<Invocation(callback, type, message, userData)>>

\* the callback invocations made during the last call, in order
Delivered ==
    Flatten([i \in 1..Len(trace) |->
                IF trace[i].kind = "log"
                THEN DispatchLog(trace[i].name, trace[i].data,
                                 g_logCallback, g_logUserData, g_logBridge)
                ELSE <<>>])

\* what a caller registers: no callback, or one of two callbacks with or without user data
Registrations ==
    {[callback |-> NULL, userData |-> NULL],
     [callback |-> Ptr("OnCompilerLog"), userData |-> NULL],
     [callback |-> Ptr("OnCompilerLog"), userData |-> Ptr("userData")],
     [callback |-> Ptr("OnOtherLog"), userData |-> Ptr("userData")]}

\* no call made yet, or the results of the last call dropped
Idle ==
    /\ api = "idle"
    /\ result = "NONE"
    /\ request = NULL
    /\ backend = NULL
    /\ options = CompilerOptions
    /\ args = <<>>
    /\ regShifts = <<>>
    /\ resultCode = "empty"
    /\ code = 0
    /\ info = ShaderReflectionInfo
    /\ outInfo = ZeroCReflectionInfo
    /\ inputs = <<>>
    /\ mapped = NULL
    /\ allocator = 0
    /\ trace = <<>>

\* static initialisation of the logging sink: no callback, an empty bridge
NoListener == [callback |-> NULL, userData |-> NULL]

SinkInit ==
    /\ g_logCallback = NULL
    /\ g_logUserData = NULL
    /\ g_logBridge = NoListener
    /\ listener = NoListener

Init == host \in {"windows", "other"} /\ Idle /\ SinkInit

CompileDXCCall ==
    /\ api = "idle" /\ host = "windows"
    /\ \E o \in DxcOptionsSet, be \in DxcBackends :
          LET c == CompileDXC(o, be)
          IN  /\ api' = "CompileDXC"
              /\ backend' = Ptr(be)
              /\ options' = o
              /\ args' = c.args
              /\ regShifts' = c.regShifts
              /\ resultCode' = c.resultCode
              /\ trace' = c.trace
    /\ UNCHANGED <<sink, host, allocator, mapped, result, request, code, info, outInfo, inputs>>

CompileGLSLCall ==
    /\ api = "idle"
    /\ \E o \in GlslOptionsSet, be \in GlslBackends :
          LET c == CompileGLSL(o, be)
          IN  /\ api' = "CompileGLSL"
              /\ backend' = Ptr(be)
              /\ options' = o
              /\ resultCode' = c.resultCode
              /\ trace' = c.trace
    /\ UNCHANGED <<sink, host, allocator, mapped, result, request, args, regShifts, code, info, outInfo, inputs>>

IgniteCompiler_CompileCall ==
    /\ api = "idle"
    /\ \E req \in {NULL} \cup {Ptr(r) : r \in RequestSet}, be \in CompileBackends :
          LET c == IgniteCompiler_Compile(req, host, be)
          IN  /\ api' = "IgniteCompiler_Compile"
              /\ backend' = Ptr(be)
              /\ request' = req
              /\ result' = c.result
              /\ options' = c.options
              /\ args' = c.out.args
              /\ regShifts' = c.out.regShifts
              /\ resultCode' = c.out.resultCode
              /\ trace' = c.out.trace
    /\ UNCHANGED <<sink, host, allocator, mapped, code, info, outInfo, inputs>>

SPIRVReflectCall ==
    /\ api = "idle"
    /\ \E type \in ReflectTypes, size \in CodeSizes :
          \E be \in SpvBackendsFor(size) : \E r \in SPIRVReflect(type, size, be) :
              /\ api' = "SPIRVReflect"
              /\ backend' = Ptr(be)
              /\ code' = size
              /\ info' = r.info
              /\ trace' = r.trace
    /\ UNCHANGED <<sink, host, allocator, mapped, result, request, options, args, regShifts, resultCode, outInfo, inputs>>

DXILReflectCall ==
    /\ api = "idle"
    /\ \E type \in ReflectTypes, size \in CodeSizes :
          \E be \in DxilBackendsFor(size) : \E r \in DXILReflect(type, size, host, be) :
              /\ api' = "DXILReflect"
              /\ backend' = Ptr(be)
              /\ code' = size
              /\ info' = r.info
              /\ inputs' = r.inputs
              /\ trace' = r.trace
    /\ UNCHANGED <<sink, host, allocator, mapped, result, request, options, args, regShifts, resultCode, outInfo>>

IgniteCompiler_ReflectSPIRVCall ==
    /\ api = "idle"
    /\ \E a \in ReflectArguments, type \in ReflectTypes, failing \in AllocFailChoices :
          \E be \in SpvBackendsFor(IF a.data = NULL \/ a.out = NULL THEN 0 ELSE a.size) :
          \E r \in IgniteCompiler_ReflectSPIRV(a.data, a.size, type, a.out,
                                               IF a.out = NULL THEN outInfo ELSE Deref(a.out),
                                               be, failing) :
              /\ AllocFailHappens(failing, r, be, SpvBackendsFor(0))
              /\ api' = "IgniteCompiler_ReflectSPIRV"
              /\ backend' = Ptr(be)
              /\ request' = Ptr(a)
              /\ allocator' = failing
              /\ code' = a.size
              /\ result' = r.result
              /\ outInfo' = r.out
              /\ info' = r.info
              /\ trace' = r.trace
    /\ UNCHANGED <<sink, host, mapped, options, args, regShifts, resultCode, inputs>>

IgniteCompiler_ReflectDXILCall ==
    /\ api = "idle"
    /\ \E a \in ReflectArguments, type \in ReflectTypes, failing \in DxilAllocFailChoices :
          \E be \in DxilBackendsFor(IF a.data = NULL \/ a.out = NULL THEN 0 ELSE a.size) :
          \E r \in IgniteCompiler_ReflectDXIL(a.data, a.size, type, a.out,
                                              IF a.out = NULL THEN outInfo ELSE Deref(a.out),
                                              host, be, failing) :
              /\ AllocFailHappens(failing, r, be, DxilBackendsFor(0))
              /\ api' = "IgniteCompiler_ReflectDXIL"
              /\ backend' = Ptr(be)
              /\ request' = Ptr(a)
              /\ allocator' = failing
              /\ code' = a.size
              /\ result' = r.result
              /\ outInfo' = r.out
              /\ info' = r.info
              /\ inputs' = r.inputs
              /\ trace' = r.trace
    /\ UNCHANGED <<sink, host, mapped, options, args, regShifts, resultCode>>

IGNITE_MapSpvcTypeCall ==
    /\ api = "idle"
    /\ \E typeHandle \in SpvcTypeHandles :
          /\ api' = "IGNITE_MapSpvcType"
          /\ mapped' = Ptr([typeHandle |-> typeHandle,
                            format |-> IGNITE_MapSpvcType(typeHandle)])
    /\ UNCHANGED <<sink, host, allocator, result, request, backend, options, args, regShifts, resultCode, code,
                   info, outInfo, inputs, trace>>

\* compiled only under _WIN32
IGNITE_Map3DComponentCall ==
    /\ api = "idle" /\ host = "windows"
    /\ \E componentType \in D3DComponentTypes, elementCount \in 0..MaxWidth :
          /\ api' = "IGNITE_Map3DComponent"
          /\ mapped' = Ptr([componentType |-> componentType, elementCount |-> elementCount,
                            format |-> IGNITE_Map3DComponent(componentType, elementCount)])
    /\ UNCHANGED <<sink, host, allocator, result, request, backend, options, args, regShifts, resultCode, code,
                   info, outInfo, inputs, trace>>

\* reflectionInfo: NULL or a pointer to the caller's structure, whatever it holds: the
\* result of the reflect call just made, zeroes, or what an earlier free left
IgniteCompiler_FreeReflectionInfoCall ==
    /\ api \in {"idle", "IgniteCompiler_ReflectSPIRV", "IgniteCompiler_ReflectDXIL",
                "IgniteCompiler_FreeReflectionInfo"}
    /\ \E reflectionInfo \in {NULL, Ptr("out")} :
          /\ api' = "IgniteCompiler_FreeReflectionInfo"
          /\ request' = reflectionInfo
          /\ outInfo' = IF reflectionInfo = NULL THEN outInfo
                        ELSE IgniteCompiler_FreeReflectionInfo(outInfo)
          /\ trace' = IF reflectionInfo = NULL THEN <<>>
                      ELSE FreeReflectionInfoCalls(outInfo)
    /\ result' = "NONE"
    /\ backend' = NULL
    /\ code' = 0
    /\ info' = ShaderReflectionInfo
    /\ inputs' = <<>>
    /\ allocator' = 0
    /\ UNCHANGED <<sink, host, mapped, options, args, regShifts, resultCode>>

SetLogCallbackCall ==
    /\ api = "idle"
    /\ \E registration \in Registrations :
          LET callback == registration.callback
              userData == registration.userData
              global == SetLogCallback(callback, userData)
          IN  /\ api' = "SetLogCallback"
              /\ g_logCallback' = global.g_logCallback
              /\ g_logUserData' = global.g_logUserData
              /\ listener' = [callback |-> callback, userData |-> userData]
    /\ UNCHANGED <<g_logBridge, host, result, request, backend, options, args, regShifts,
                   resultCode, code, info, outInfo, inputs, mapped, allocator, trace>>

ClearLogCallbackCall ==
    /\ api = "idle"
    /\ api' = "ClearLogCallback"
    /\ g_logCallback' = ClearLogCallback.g_logCallback
    /\ g_logUserData' = ClearLogCallback.g_logUserData
    /\ listener' = NoListener
    /\ UNCHANGED <<g_logBridge, host, result, request, backend, options, args, regShifts,
                   resultCode, code, info, outInfo, inputs, mapped, allocator, trace>>

IgniteCompiler_SetLogCallbackCall ==
    /\ api = "idle"
    /\ \E registration \in Registrations :
          LET callback == registration.callback
              userData == registration.userData
              after == IgniteCompiler_SetLogCallback(callback, userData)
          IN  /\ api' = "IgniteCompiler_SetLogCallback"
              /\ g_logBridge' = after.g_logBridge
              /\ g_logCallback' = after.g_logCallback
              /\ g_logUserData' = after.g_logUserData
              /\ listener' = [callback |-> callback, userData |-> userData]
    /\ UNCHANGED <<host, result, request, backend, options, args, regShifts,
                   resultCode, code, info, outInfo, inputs, mapped, allocator, trace>>

\* the caller drops what the last call returned
Return ==
    /\ api # "idle"
    /\ api' = "idle"
    /\ result' = "NONE"
    /\ request' = NULL
    /\ backend' = NULL
    /\ options' = CompilerOptions
    /\ args' = <<>>
    /\ regShifts' = <<>>
    /\ resultCode' = "empty"
    /\ code' = 0
    /\ info' = ShaderReflectionInfo
    /\ outInfo' = ZeroCReflectionInfo
    /\ inputs' = <<>>
    /\ mapped' = NULL
    /\ allocator' = 0
    /\ trace' = <<>>
    /\ UNCHANGED <<sink, host>>

Next ==
    \/ CompileDXCCall
    \/ CompileGLSLCall
    \/ IgniteCompiler_CompileCall
    \/ SPIRVReflectCall
    \/ DXILReflectCall
    \/ IgniteCompiler_ReflectSPIRVCall
    \/ IgniteCompiler_ReflectDXILCall
    \/ IGNITE_MapSpvcTypeCall
    \/ IGNITE_Map3DComponentCall
    \/ IgniteCompiler_FreeReflectionInfoCall
    \/ Return

Spec == Init /\ [][Next]_vars

\* configuration of the logging sink, serialized with compile and reflect calls
LogNext ==
    \/ SetLogCallbackCall
    \/ ClearLogCallbackCall
    \/ IgniteCompiler_SetLogCallbackCall
    \/ CompileGLSLCall
    \/ SPIRVReflectCall
    \/ Return

LogSpec == Init /\ [][LogNext]_vars

----------------------------------------------------------------------------
(* Properties: what the calls above guarantee *)

ReflectCalls == {"SPIRVReflect", "DXILReflect", "IgniteCompiler_ReflectSPIRV",
                 "IgniteCompiler_ReflectDXIL"}
SpirvCalls == {"SPIRVReflect", "IgniteCompiler_ReflectSPIRV"}
DxilCalls == {"DXILReflect", "IgniteCompiler_ReflectDXIL"}

\* the last call ran a reflection to its end (a C entry point that rejected its
\* arguments ran none, an exception abandoned the one it ran)
Reflected ==
    api \in ReflectCalls /\ result # "INVALID_ARGUMENT" /\ allocator # OperatorNewThrows

\* the last call ran CompileDXC up to the construction of the argument list
DxcRan == api \in {"CompileDXC", "IgniteCompiler_Compile"} /\ args # <<>>

NonDecreasing(s, key) == \A i \in 1..(Len(s) - 1) : s[i][key] <= s[i + 1][key]

\* C1: after any SPIR-V or DXIL reflection, stageInputs and stageOutputs are in
\* non-decreasing order of location (register index), whatever the order in which
\* the backend enumerated the interface variables.
C1_StageIOSorted ==
    Reflected =>
        /\ NonDecreasing(info.stageInputs, "location")
        /\ NonDecreasing(info.stageOutputs, "location")
        /\ info.numStageInputs = Len(info.stageInputs)
        /\ info.numStageOutputs = Len(info.stageOutputs)

\* a SPIR-V module whose inputs and outputs were both enumerated in descending order of
\* location came back with both lists complete
C1_Witness ==
    /\ api = "SPIRVReflect"
    /\ Deref(backend).failAt = "none"
    /\ Deref(backend).lists.STAGE_INPUT # NULL
    /\ LET sin == Deref(Deref(backend).lists.STAGE_INPUT)
           sout == Deref(Deref(backend).lists.STAGE_OUTPUT)
       IN  /\ Len(sin) >= 2 /\ sin[1].location > sin[2].location
           /\ Len(sout) = 2 /\ sout[1].location > sout[2].location
           /\ Len(info.stageInputs) = Len(sin)
           /\ Len(info.stageOutputs) = 2

\* 4 bytes x vector width, a width of 0 counted as 1
ByteSize(width) == 4 * (IF width > 0 THEN width ELSE 1)

RECURSIVE Sum(_)
Sum(s) == IF s = <<>> THEN 0 ELSE Head(s) + Sum(Tail(s))

\* the stage inputs that are not skipped as unsupported
Emitted(stageInputs) == SelectSeq(stageInputs, LAMBDA io : io.format # INVALID)

\* the number of bits set in a four-bit component mask
BitsSet(mask) == Cardinality({b \in {1, 2, 4, 8} : (mask \div b) % 2 = 1})

\* the byte sizes of the emitted attributes, in the order the layout builder walks the
\* inputs: info.stageInputs for SPIR-V, the sorted input list for DXIL
WalkedSizes ==
    IF api \in SpirvCalls
    THEN LET e == Emitted(info.stageInputs)
         IN  [i \in 1..Len(e) |-> ByteSize(e[i].vecSize)]
    ELSE LET e == SelectSeq(inputs, LAMBDA a :
                      IGNITE_Map3DComponent(a.componentType,
                                            IF BitsSet(a.mask) > 0 THEN BitsSet(a.mask) ELSE 1)
                          # INVALID)
         IN  [i \in 1..Len(e) |-> ByteSize(BitsSet(e[i].mask))]

VertexReflected == Reflected /\ info.shaderType = "VERTEX"

\* C2: in a vertex-stage reflection every vertex attribute carries the same
\* elementStride: the sum of 4 x max(vector width, 1) over the stage inputs that were
\* emitted as attributes; skipped inputs add nothing.
C2_StrideIsSumOfEmitted ==
    VertexReflected =>
        LET e == Emitted(info.stageInputs)
            total == Sum([i \in 1..Len(e) |-> ByteSize(e[i].vecSize)])
        IN  /\ Len(info.vertexAttributes) = Len(e)
            /\ \A i \in 1..Len(info.vertexAttributes) :
                  info.vertexAttributes[i].elementStride = total

\* a vertex reflection that emitted two attributes or more and skipped an input
C2_Witness ==
    /\ VertexReflected
    /\ Len(info.vertexAttributes) >= 2
    /\ Len(info.stageInputs) > Len(info.vertexAttributes)
    /\ info.vertexAttributes[1].elementStride > 0

\* C3: the offset of the k-th vertex attribute is the sum of 4 x max(vector width, 1)
\* over the emitted inputs before it in sorted order: the first offset is 0, offsets
\* grow strictly and byte ranges do not overlap; two float2 inputs at locations 0 and
\* 1 give two attributes at offsets 0 and 8 with stride 16.
C3_OffsetsArePrefixSums ==
    VertexReflected =>
        LET va == info.vertexAttributes
            sizes == WalkedSizes
        IN  /\ Len(va) = Len(sizes)
            /\ \A k \in 1..Len(va) : va[k].offset = Sum(SubSeq(sizes, 1, k - 1))
            /\ \A k \in 1..(Len(va) - 1) : va[k].offset + sizes[k] <= va[k + 1].offset
            /\ (/\ Len(info.stageInputs) = 2
                /\ \A i \in 1..2 : /\ info.stageInputs[i].location = i - 1
                                   /\ info.stageInputs[i].format = "FLOAT2"
                                   /\ info.stageInputs[i].vecSize = 2)
               => /\ Len(va) = 2
                  /\ va[1].offset = 0 /\ va[2].offset = 8
                  /\ va[1].elementStride = 16 /\ va[2].elementStride = 16

\* the SPIR-V module declares float2 inputs at locations 1 and 0, in that order
C3_Witness ==
    /\ api = "SPIRVReflect"
    /\ info.shaderType = "VERTEX"
    /\ Deref(backend).failAt = "none"
    /\ Deref(backend).lists.STAGE_INPUT # NULL
    /\ LET sin == Deref(Deref(backend).lists.STAGE_INPUT)
       IN  /\ Len(sin) = 2
           /\ sin[1].location = 1 /\ sin[2].location = 0
           /\ \A i \in 1..2 : sin[i].type = Ptr(SpvcType("FP32", 2, 1))
    /\ Len(info.vertexAttributes) = 2
    /\ info.vertexAttributes[2].offset = 8

\* C4 as the specification states it: SPIR-V whose byte length is not a multiple of 4
\* is rejected before any parse: no SPIRV-Cross context is created, the reflection is
\* empty, and IgniteCompiler_ReflectSPIRV returns a code other than IGNITE_RESULT_OK.
C4_MisalignedReportsFailure ==
    (api = "IgniteCompiler_ReflectSPIRV" /\ result # "INVALID_ARGUMENT" /\ code % 4 # 0) =>
        /\ Calls(trace, "spvc_context_create") = <<>>
        /\ Calls(trace, "spvc_context_parse_spirv") = <<>>
        /\ info = [ShaderReflectionInfo EXCEPT !.shaderType = info.shaderType]
        /\ result # "OK"

\* C5 as the specification states it: in a build without _WIN32, a DXIL reflection
\* request with non-empty input returns IGNITE_RESULT_UNSUPPORTED_PLATFORM and calls
\* no reflection backend.
C5_DxilUnsupportedPlatform ==
    (host # "windows" /\ api = "IgniteCompiler_ReflectDXIL" /\ result # "INVALID_ARGUMENT") =>
        /\ result = "UNSUPPORTED_PLATFORM"
        /\ SelectSeq(trace, LAMBDA e : e.kind = "call") = <<>>

\* the decimal text of the numbers that occur as shifts and spaces
DecimalText(n) ==
    CASE n = 0 -> "0" [] n = 1 -> "1" [] n = 2 -> "2" [] n = 3 -> "3" [] n = 4 -> "4"
      [] n = 5 -> "5" [] n = 6 -> "6" [] n = 7 -> "7" [] n = 128 -> "128"
      [] n = 256 -> "256" [] n = 300 -> "300" [] n = 384 -> "384"
      [] n = 2147483647 -> "2147483647"

\* flag of each register kind and the option that configures its base shift
KindFlag == [t |-> "-fvk-t-shift", s |-> "-fvk-s-shift", b |-> "-fvk-b-shift",
             u |-> "-fvk-u-shift"]
KindShift == [t |-> "tRegShift", s |-> "sRegShift", b |-> "bRegShift", u |-> "uRegShift"]
Kinds == {"t", "s", "b", "u"}
Spaces == 0..7

\* the k-th flag/shift/space triple of a register-shift block
Triple(block, k) == [flag |-> block[3 * k - 2], shift |-> block[3 * k - 1], space |-> block[3 * k]]

\* C6: the register-shift block built by CompileDXC holds exactly 32 flag/shift/space
\* triples: each of the 4 register kinds with each of the 8 spaces 0..7 exactly once,
\* and no other pair.
C6_RegShiftBlockComplete ==
    DxcRan =>
        /\ Len(regShifts) = 3 * 32
        /\ {<<Triple(regShifts, k).flag, Triple(regShifts, k).space>> : k \in 1..32}
              = {<<KindFlag[kind], DecimalText(space)>> : kind \in Kinds, space \in Spaces}
        /\ Cardinality({<<KindFlag[kind], DecimalText(space)>> :
                            kind \in Kinds, space \in Spaces}) = 32

\* a SPIR-V compile whose argument list carries the block
C6_Witness ==
    /\ api = "CompileDXC"
    /\ options.platformType = "SPIRV"
    /\ Len(regShifts) = 96
    /\ \E at \in 1..Len(args) : SubSeq(args, at, at + 95) = regShifts

\* C7: the triple emitted for register kind k and space i carries the base shift
\* configured for kind k (tRegShift, sRegShift, bRegShift, uRegShift) and the space i;
\* through the C entry point the configured shifts are the request's.
C7_ShiftOfKind ==
    DxcRan =>
        /\ {Triple(regShifts, k) : k \in 1..(Len(regShifts) \div 3)}
              = {[flag |-> KindFlag[kind],
                  shift |-> DecimalText(options[KindShift[kind]]),
                  space |-> DecimalText(space)] : kind \in Kinds, space \in Spaces}
        /\ api = "IgniteCompiler_Compile" =>
              \A kind \in Kinds : options[KindShift[kind]] = Deref(request)[KindShift[kind]]

\* a compile through the C entry point with four different shifts
C7_Witness ==
    /\ api = "IgniteCompiler_Compile"
    /\ result = "OK"
    /\ regShifts # <<>>
    /\ options.tRegShift = 7 /\ options.sRegShift = 300
    /\ options.bRegShift = 2 /\ options.uRegShift = 2147483647

\* base shift of a kind + register number, for a record o of shifts
Slot(o, kind, register) == o[KindShift[kind]] + register

CollisionFree(o) ==
    \A k1, k2 \in Kinds : \A r1, r2 \in 0..127 :
        (k1 # k2 \/ r1 # r2) => Slot(o, k1, r1) # Slot(o, k2, r2)

\* the request leaves its four shift fields as a zeroed structure has them
ShiftsNotSet(r) == \A kind \in Kinds : r[KindShift[kind]] = 0

\* C8 as the specification states it: the default shifts 0, 128, 256, 384 keep the
\* slots of registers 0..127 of different kinds apart, and a compile request that does
\* not set the shifts is compiled with these defaults.
C8_UnsetShiftsGetDefaults ==
    (api = "IgniteCompiler_Compile" /\ regShifts # <<>> /\ ShiftsNotSet(Deref(request))) =>
        /\ \A kind \in Kinds : options[KindShift[kind]] = CompilerOptions[KindShift[kind]]
        /\ CollisionFree(options)

\* the value of a decimal digit character
DigitValue(ch) ==
    CASE ch = "0" -> 0 [] ch = "1" -> 1 [] ch = "2" -> 2 [] ch = "3" -> 3 [] ch = "4" -> 4
      [] ch = "5" -> 5 [] ch = "6" -> 6 [] ch = "7" -> 7 [] ch = "8" -> 8 [] ch = "9" -> 9

\* shader model major_minor is 6.2 or later
AtLeast6_2(model) ==
    \/ DigitValue(model[1]) > 6
    \/ DigitValue(model[1]) = 6 /\ DigitValue(model[3]) >= 2

DxcOptimizationArgs(a) == SelectSeq(a, LAMBDA x : x \in {"-Od", "-O1", "-O2", "-O3"})

\* the levels handed to shaderc_compile_options_set_optimization_level
ShadercLevels(tr) ==
    LET c == Calls(tr, "shaderc_compile_options_set_optimization_level")
    IN  [i \in 1..Len(c) |-> c[i].data]

\* CompileGLSL got as far as configuring shaderc
GlslRan ==
    /\ api \in {"CompileGLSL", "IgniteCompiler_Compile"}
    /\ Calls(trace, "shaderc_compile_options_initialize") # <<>>

\* C10 as the specification states it: tier 0 gives the disable-optimization setting and
\* tiers 1, 2 and 3 all give the same maximize-performance setting, in CompileDXC's
\* argument list and in CompileGLSL's shaderc options.
C10_TiersCollapse ==
    /\ DxcRan =>
          DxcOptimizationArgs(args) =
              IF options.shaderDesc.optLevel = 0 THEN <<"-Od">> ELSE <<"-O3">>
    /\ GlslRan =>
          ShadercLevels(trace) =
              IF options.shaderDesc.optLevel = 0
              THEN <<"shaderc_optimization_level_zero">>
              ELSE <<"shaderc_optimization_level_performance">>

\* C10, amended: CompileGLSL gives level zero for tier 0 and level performance for
\* tiers 1, 2 and 3; CompileDXC gives -Od, -O1, -O2, -O3 for tiers 0, 1, 2, 3, a
\* different argument for each tier.
C10_DxcPerTierGlslCollapse ==
    /\ DxcRan =>
          DxcOptimizationArgs(args) =
              CASE options.shaderDesc.optLevel = 0 -> <<"-Od">>
                [] options.shaderDesc.optLevel = 1 -> <<"-O1">>
                [] options.shaderDesc.optLevel = 2 -> <<"-O2">>
                [] options.shaderDesc.optLevel = 3 -> <<"-O3">>
    /\ GlslRan =>
          ShadercLevels(trace) =
              IF options.shaderDesc.optLevel = 0
              THEN <<"shaderc_optimization_level_zero">>
              ELSE <<"shaderc_optimization_level_performance">>

\* a DXC compile at tier 2
C10_Witness ==
    /\ api = "CompileDXC"
    /\ options.shaderDesc.optLevel = 2
    /\ DxcOptimizationArgs(args) = <<"-O2">>

\* the last call was a type-mapper call on a vector of the given width
MappedWidth(width) ==
    \/ api = "IGNITE_MapSpvcType" /\ Deref(mapped).typeHandle # NULL
           /\ Deref(Deref(mapped).typeHandle).vecsize = width
    \/ api = "IGNITE_Map3DComponent" /\ Deref(mapped).elementCount = width

\* the last call was a type-mapper call on 32-bit floats
MappedFloat32 ==
    \/ api = "IGNITE_MapSpvcType" /\ Deref(mapped).typeHandle # NULL
           /\ Deref(Deref(mapped).typeHandle).basetype = "FP32"
           /\ Deref(Deref(mapped).typeHandle).columns = 1
    \/ api = "IGNITE_Map3DComponent" /\ Deref(mapped).componentType = "FLOAT32"

\* the last call was a type-mapper call on a supported scalar kind, not a matrix
MappedSupportedKind ==
    \/ api = "IGNITE_MapSpvcType" /\ Deref(mapped).typeHandle # NULL
           /\ Deref(Deref(mapped).typeHandle).basetype \in {"FP32", "INT32", "UINT32"}
           /\ Deref(Deref(mapped).typeHandle).columns = 1
    \/ api = "IGNITE_Map3DComponent"
           /\ Deref(mapped).componentType \in {"FLOAT32", "SINT32", "UINT32"}

\* C11 as the specification states it: both mappers map (float32, width 2) to the
\* two-component float format, and neither returns the unsupported format for any
\* input of vector width 4.
C11_Width4NeverInvalid ==
    /\ (MappedFloat32 /\ MappedWidth(2)) => Deref(mapped).format = "FLOAT2"
    /\ MappedWidth(4) => Deref(mapped).format # INVALID

\* C11, amended: both mappers map (float32, width 2) to the two-component float
\* format; for width 4 neither returns the unsupported format when the scalar kind
\* is float32, signed or unsigned 32-bit integer and the type is not a matrix.
C11_Width4OfSupportedKindValid ==
    /\ (MappedFloat32 /\ MappedWidth(2)) => Deref(mapped).format = "FLOAT2"
    /\ (MappedSupportedKind /\ MappedWidth(4)) => Deref(mapped).format # INVALID

\* the D3D mapper was applied to four 32-bit floats
C11_Witness ==
    /\ api = "IGNITE_Map3DComponent"
    /\ Deref(mapped).componentType = "FLOAT32"
    /\ Deref(mapped).elementCount = 4
    /\ Deref(mapped).format = "FLOAT3"

\* the stage inputs the SPIR-V backend reported to a reflection that ran to its end
SpvReportedInputs ==
    IF /\ api \in SpirvCalls /\ Reflected /\ code % 4 = 0
       /\ Deref(backend).failAt = "none"
       /\ Deref(backend).lists.STAGE_INPUT # NULL
    THEN Deref(Deref(backend).lists.STAGE_INPUT) ELSE <<>>

\* the input signature parameters the DXIL backend reported to a reflection that ran to
\* its end, each with the index it was enumerated at
DxilReportedInputs ==
    IF /\ api \in DxilCalls /\ Reflected /\ host = "windows" /\ code >= 4
       /\ (Deref(backend).container = "ok" \/ Deref(backend).legacy)
       /\ Deref(backend).desc
    THEN LET params == Deref(backend).shader.InputParameters
         IN  SelectSeq([i \in 1..Len(params) |-> [index |-> i - 1, desc |-> params[i]]],
                       LAMBDA p : p.desc.ok)
    ELSE <<>>

\* a SPIR-V interface variable whose type is a vector of one to four 32-bit floats,
\* signed or unsigned integers
SpvSupported(v) ==
    /\ v.type # NULL
    /\ Deref(v.type).columns = 1
    /\ Deref(v.type).basetype \in {"FP32", "INT32", "UINT32"}
    /\ Deref(v.type).vecsize \in 1..4

\* a signature parameter of 32-bit floats, signed or unsigned integers
DxilSupported(p) == p.desc.ComponentType \in {"FLOAT32", "SINT32", "UINT32"}

\* the C entry point flattened the reflection without an allocation failure
Flattened ==
    api \in {"IgniteCompiler_ReflectSPIRV", "IgniteCompiler_ReflectDXIL"} /\ allocator = 0

\* C12: when a vertex-stage shader has a stage input of a matrix type or another
\* unsupported format, the input is in stageInputs with the unsupported format, no
\* vertex attribute is built from it, a warning is logged for it, every supported
\* input still yields its attribute, and the reflection is reported as successful
\* (no error logged, IGNITE_RESULT_OK from the C entry points).
C12_UnsupportedInputSkipped ==
    VertexReflected =>
        LET spv == SpvReportedInputs
            dx == DxilReportedInputs
            spvBad == SelectSeq(spv, LAMBDA v : ~SpvSupported(v))
            dxBad == SelectSeq(dx, LAMBDA p : ~DxilSupported(p))
        IN  (spvBad # <<>> \/ dxBad # <<>>) =>
              /\ \A k \in 1..Len(spvBad) :
                    /\ \E i \in 1..Len(info.stageInputs) :
                          /\ info.stageInputs[i].id = spvBad[k].id
                          /\ info.stageInputs[i].format = INVALID
                    /\ \E j \in 1..Len(trace) :
                          trace[j] = LogEv("WARNING",
                              "SPIRV reflection: unsupported vertex attribute format at location "
                              \o DecimalText(spvBad[k].location))
              /\ \A k \in 1..Len(dxBad) :
                    /\ \E i \in 1..Len(info.stageInputs) :
                          /\ info.stageInputs[i].id = dxBad[k].index
                          /\ info.stageInputs[i].format = INVALID
                    /\ \E j \in 1..Len(trace) :
                          trace[j] = LogEv("WARNING",
                              "DXIL reflection: unsupported vertex input format for semantic "
                              \o NameOf(dxBad[k].desc.SemanticName))
              /\ Len(Logs(trace, "WARNING")) = Len(spvBad) + Len(dxBad)
              /\ Len(info.stageInputs) = Len(spv) + Len(dx)
              /\ Len(info.vertexAttributes) = Len(spv) + Len(dx) - Len(spvBad) - Len(dxBad)
              /\ \A i \in 1..Len(info.vertexAttributes) : info.vertexAttributes[i].format # INVALID
              /\ Logs(trace, "ERROR") = <<>>
              /\ Flattened =>
                    /\ result = "OK"
                    /\ outInfo.numStageInputs = Len(info.stageInputs)
                    /\ outInfo.vertexAttributeCount = Len(info.vertexAttributes)

\* the C entry point reflected a vertex shader with a matrix input, an input without a
\* type and one supported input, and reported success
C12_Witness ==
    /\ api = "IgniteCompiler_ReflectSPIRV" /\ VertexReflected /\ allocator = 0
    /\ Len(SelectSeq(SpvReportedInputs, LAMBDA v : ~SpvSupported(v))) = 2
    /\ \E k \in 1..Len(SpvReportedInputs) :
          SpvReportedInputs[k].type # NULL /\ Deref(SpvReportedInputs[k].type).columns = 4
    /\ Len(info.stageInputs) = 3
    /\ Len(info.vertexAttributes) = 1
    /\ result = "OK"

\* C13: in the SPIR-V reflection path every stage input or output whose type is a
\* matrix (column count other than 1) or whose mapped format is the unsupported one
\* is discarded from the stage-IO list: after the call no entry of stageInputs or
\* stageOutputs has columns # 1 or format INVALID.
C13_SpirvStageIOFiltered ==
    (api \in SpirvCalls /\ Reflected) =>
        /\ \A i \in 1..Len(info.stageInputs) :
              info.stageInputs[i].columns = 1 /\ info.stageInputs[i].format # INVALID
        /\ \A i \in 1..Len(info.stageOutputs) :
              info.stageOutputs[i].columns = 1 /\ info.stageOutputs[i].format # INVALID

\* how many entries of s have the given name and format
CountOf(s, name, format) ==
    Len(SelectSeq(s, LAMBDA x : x.name = name /\ x.format = format))

\* C14: vertexAttributes is empty whenever the declared stage is not vertex; for a
\* vertex stage each stage input with a supported format yields exactly one attribute
\* with the same name and format, each input with the unsupported format yields none,
\* and every attribute has bufferIndex 0.
C14_AttributesFromVertexInputs ==
    Reflected =>
        LET va == info.vertexAttributes
            e == Emitted(info.stageInputs)
        IN  /\ info.shaderType # "VERTEX" => va = <<>>
            /\ info.shaderType = "VERTEX" =>
                  /\ Len(va) = Len(e)
                  /\ \A i \in 1..Len(e) :
                        CountOf(va, e[i].name, e[i].format)
                            = CountOf(e, e[i].name, e[i].format)
                  /\ \A i \in 1..Len(va) :
                        /\ va[i].bufferIndex = 0
                        /\ va[i].format # INVALID
                        /\ CountOf(e, va[i].name, va[i].format) > 0

\* a DXIL vertex reflection built two attributes, one of them named with its semantic
\* index, and skipped an unsupported input
C14_Witness ==
    /\ api \in DxilCalls /\ VertexReflected
    /\ Len(info.stageInputs) = 3
    /\ Len(info.vertexAttributes) = 2
    /\ \E i \in 1..2 : info.vertexAttributes[i].name = "NORMAL1"
                        /\ info.vertexAttributes[i].format = "FLOAT2"

\* the length of a C array: a null pointer holds no entries
CLen(array) == IF array = NULL THEN 0 ELSE Len(Deref(array))

\* the arrays that have a count field of their own
CountedArrays == <<"uniformBuffers", "sampledImages", "storageImages", "storageBuffers",
                   "separateSamplers", "separateImages", "pushConstants", "stageInputs",
                   "stageOutputs">>

\* the lengths of the nine counted arrays of a ShaderReflectionInfo
VectorLengths(r) == [k \in 1..9 |-> Len(r[CountedArrays[k]])]

\* the lengths of the nine counted arrays of the flattened C structure
ArrayLengths(r) == [k \in 1..9 |-> CLen(r[CountedArrays[k]])]

\* each of the nine count fields of r equals the length given for its array
CountsMatch(r, lengths) ==
    <<r.numUniformBuffers, r.numSamplers, r.numStorageTextures, r.numStorageBuffers,
      r.numSeparateSamplers, r.numSeparateImages, r.numPushConstants, r.numStageInputs,
      r.numStageOutputs>> = lengths

\* C15: in every ReflectionInfo a reflect call returns, on every return path, each of
\* the nine count fields equals the length of its array, and the same holds for the
\* flattened C structure the C entry points hand to the caller.
C15_CountsEqualLengths ==
    Reflected =>
        /\ CountsMatch(info, VectorLengths(info))
        /\ api \in {"IgniteCompiler_ReflectSPIRV", "IgniteCompiler_ReflectDXIL"} =>
              CountsMatch(outInfo, ArrayLengths(outInfo))

\* a C entry point flattened a reflection with resources, inputs and outputs
C15_Witness ==
    /\ api = "IgniteCompiler_ReflectSPIRV" /\ result = "OK"
    /\ outInfo.numUniformBuffers >= 1
    /\ outInfo.numStageInputs >= 2
    /\ outInfo.numStageOutputs = 2
    /\ CLen(outInfo.stageInputs) >= 2

\* how many times x occurs in the list
Occurrences(list, x) == Len(SelectSeq(list, LAMBDA y : y = x))

\* the tokens CompileDXC appends from the caller's free-form compilerOptions
UserTokens == TokenizeAll(options.compilerOptions, <<>>)

\* the arguments CompileDXC pushes before it appends the caller's tokens
GeneratedArgs == SubSeq(args, 1, Len(args) - Len(UserTokens))

TargetEnvFlag == "-fspv-target-env=vulkan" \o options.shaderDesc.vulkanVersion
LayoutHint == "-fvk-use-" \o options.shaderDesc.vulkanMemoryLayout \o "-layout"
ExtensionFlag(ext) == "-fspv-extension=" \o ext

\* the family-specific arguments of the list are those of the configured target only
FamilyArgsExclusive(list) ==
    LET exts == options.spirvExtensions
    IN  IF options.platformType = "SPIRV"
        THEN /\ Occurrences(list, "-spirv") = 1
             /\ Occurrences(list, TargetEnvFlag) = 1
             /\ Occurrences(list, LayoutHint)
                   = (IF options.shaderDesc.vulkanMemoryLayout # "" THEN 1 ELSE 0)
             /\ \A i \in 1..Len(exts) :
                   Occurrences(list, ExtensionFlag(exts[i])) = Occurrences(exts, exts[i])
             /\ Len(regShifts) = 3 * 32
             /\ \E at \in 1..Len(list) : SubSeq(list, at, at + Len(regShifts) - 1) = regShifts
             /\ \A kind \in Kinds : Occurrences(list, KindFlag[kind]) = 8
             /\ Occurrences(list, "-Qstrip_reflect") = 0
        ELSE /\ Occurrences(list, "-spirv") = 0
             /\ Occurrences(list, TargetEnvFlag) = 0
             /\ Occurrences(list, LayoutHint) = 0
             /\ \A i \in 1..Len(exts) : Occurrences(list, ExtensionFlag(exts[i])) = 0
             /\ \A kind \in Kinds : Occurrences(list, KindFlag[kind]) = 0
             /\ Occurrences(list, "-Qstrip_reflect") = (IF options.stripReflection THEN 1 ELSE 0)

\* C16 as the specification states it: in the list built by CompileDXC a SPIR-V target
\* has the -spirv flag, the target-environment flag, the memory-layout hint only if
\* configured, one extension flag per extension and the full register-shift block, and
\* never the strip-reflection flag; any other target has none of those and has the
\* strip-reflection flag exactly when stripReflection is requested.
C16_FamilyArgsExclusive == DxcRan => FamilyArgsExclusive(args)

\* C16, amended: the same holds of the arguments CompileDXC generates itself, the part
\* of the list before the tokens of the caller's compilerOptions, which are appended
\* to either family's list as they are.
C16_GeneratedFamilyArgsExclusive ==
    DxcRan => /\ FamilyArgsExclusive(GeneratedArgs)
              /\ args = GeneratedArgs \o UserTokens

\* a SPIR-V compile with stripReflection requested and a memory layout configured
C16_Witness ==
    /\ api = "CompileDXC" /\ DxcRan
    /\ options.stripReflection
    /\ options.platformType = "SPIRV"
    /\ options.shaderDesc.vulkanMemoryLayout = "scalar"
    /\ UserTokens # <<>>
    /\ Occurrences(args, "-fvk-use-scalar-layout") = 1
    /\ Occurrences(args, "-Qstrip_reflect") = 0

CReflectCalls == {"IgniteCompiler_ReflectSPIRV", "IgniteCompiler_ReflectDXIL"}

\* the compile request is missing, or its inputPath is missing or empty
CompileArgumentMissing(req) ==
    \/ req = NULL
    \/ Deref(req).inputPath = NULL
    \/ Deref(Deref(req).inputPath) = Path("", "")

\* the data pointer is null, the size is 0 or the output pointer is null
ReflectArgumentMissing(a) == a.data = NULL \/ a.size = 0 \/ a.out = NULL

\* C17: a missing or empty required input is reported as IGNITE_RESULT_INVALID_ARGUMENT
\* and nothing else happens: IgniteCompiler_Compile with a null request or a null or
\* empty inputPath, and the two C reflect entry points with a null data pointer, a size
\* of 0 or a null output pointer, return it without invoking a backend or logging, and
\* the caller's output structure holds after the call what it held before.
C17_InvalidArgumentNoEffect ==
    /\ (api = "IgniteCompiler_Compile" /\ CompileArgumentMissing(request)) =>
          /\ result = "INVALID_ARGUMENT"
          /\ trace = <<>>
          /\ args = <<>> /\ resultCode = "empty"
    /\ (api \in CReflectCalls /\ ReflectArgumentMissing(Deref(request))) =>
          /\ result = "INVALID_ARGUMENT"
          /\ trace = <<>>
          /\ Deref(request).out # NULL => outInfo = Deref(Deref(request).out)
    /\ (api \in CReflectCalls \cup {"IgniteCompiler_Compile"} /\ result = "INVALID_ARGUMENT") =>
          IF api = "IgniteCompiler_Compile" THEN CompileArgumentMissing(request)
          ELSE ReflectArgumentMissing(Deref(request))

\* a reflect entry point rejected a size of 0 and the caller's structure still holds
\* the earlier result it held before
C17_Witness ==
    /\ api = "IgniteCompiler_ReflectSPIRV"
    /\ Deref(request).data # NULL /\ Deref(request).out # NULL /\ Deref(request).size = 0
    /\ result = "INVALID_ARGUMENT"
    /\ outInfo = StaleCReflectionInfo
    /\ outInfo.stageOutputs # NULL
    /\ trace = <<>>

\* the last call reached a native reflection backend and the backend failed: a
\* SPIRV-Cross step failed, or DXIL gave no reflection handle or no description
BackendFailed ==
    /\ Reflected
    /\ \/ /\ api \in SpirvCalls /\ code % 4 = 0
          /\ Deref(backend).failAt # "none"
       \/ /\ api \in DxilCalls /\ host = "windows" /\ code >= 4
          /\ \/ Deref(backend).container # "ok" /\ ~Deref(backend).legacy
             \/ ~Deref(backend).desc

\* C18: every native backend failure during reflection is converted to a failure of
\* the error taxonomy: when SPIRV-Cross fails at any step or the DXIL backend yields no
\* reflection handle or description, the reflect entry point returns a result other
\* than IGNITE_RESULT_OK.
C18_BackendFailureReported ==
    (api \in CReflectCalls /\ BackendFailed) => result # "OK"

\* how many times the native function was called during the last call
Called(name) == Len(Calls(trace, name))

\* C19: no partial in-flight state survives a compile or reflect call: the shaderc
\* compiler, compile options and compilation result acquired by CompileGLSL and the
\* SPIRV-Cross context acquired by SPIRVReflect are released before the call returns,
\* on every return path.
C19_HandlesReleased ==
    /\ api \in {"CompileGLSL", "IgniteCompiler_Compile"} =>
          /\ Called("shaderc_compiler_release") = Called("shaderc_compiler_initialize")
          /\ Called("shaderc_compile_options_release")
                = Called("shaderc_compile_options_initialize")
          /\ Called("shaderc_result_release") = Called("shaderc_compile_into_spv")
    /\ (api \in SpirvCalls /\ Reflected) =>
          Called("spvc_context_destroy")
              = (IF Called("spvc_context_create") = 1 /\ Deref(backend).failAt # "context"
                 THEN 1 ELSE 0)

\* the heap blocks a flattened reflection owns: every non-null array and every
\* non-null name string of its entries
Blocks(out) ==
    UNION {IF out[CArrayOrder[k]] = NULL THEN {}
           ELSE {CArrayOrder[k]} \cup
                {CArrayOrder[k] \o "[" \o DecimalText(i - 1) \o "].name" :
                    i \in {n \in 1..Len(Deref(out[CArrayOrder[k]])) :
                              Deref(out[CArrayOrder[k]])[n].name # NULL}} :
           k \in 1..Len(CArrayOrder)}

\* C20: IgniteCompiler_FreeReflectionInfo is the single teardown of a flattened
\* reflection result: one call releases every name string and every array of the
\* structure exactly once and leaves the structure all-zero; a call on the structure
\* it has just cleared, on a zero-initialised structure or on a null pointer frees
\* nothing and changes nothing.
C20_FreeReleasesOnceAndClears ==
    [][api' = "IgniteCompiler_FreeReflectionInfo" =>
          IF request' = NULL
          THEN trace' = <<>> /\ outInfo' = outInfo
          ELSE /\ outInfo' = ZeroCReflectionInfo
               /\ \A j \in 1..Len(trace') : IsCall(trace'[j], "free")
               /\ {trace'[j].data : j \in 1..Len(trace')} = Blocks(outInfo)
               /\ Len(trace') = Cardinality(Blocks(outInfo))
               /\ outInfo = ZeroCReflectionInfo => trace' = <<>>
               /\ (api = "IgniteCompiler_FreeReflectionInfo" /\ request # NULL) =>
                     trace' = <<>> /\ outInfo' = outInfo
      ]_vars

\* the structure filled by a successful reflection of a shader with resources, two
\* inputs or more and vertex attributes was torn down
C20_Witness ==
    /\ api = "IgniteCompiler_FreeReflectionInfo" /\ request # NULL
    /\ outInfo = ZeroCReflectionInfo
    /\ Len(trace) >= 8
    /\ \E j \in 1..Len(trace) : trace[j] = Call("free", "stageInputs[1].name")
    /\ \E j \in 1..Len(trace) : trace[j] = Call("free", "uniformBuffers")
    /\ \E j \in 1..Len(trace) : trace[j] = Call("free", "vertexAttributes")


\* the log messages of the last call, as invocations of one callback
MessagesTo(l) ==
    LET logs == SelectSeq(trace, LAMBDA e : e.kind = "log")
    IN  [i \in 1..Len(logs) |-> Invocation(l.callback, logs[i].name, logs[i].data, l.userData)]

\* C21: the logging sink holds one callback and its user-data pointer: during a call
\* that follows any serialized sequence of SetLogCallback, ClearLogCallback and
\* IgniteCompiler_SetLogCallback calls, every log message is delivered exactly once, in
\* order, to the callback of the latest registration with the user data of that same
\* registration, and nothing is delivered after ClearLogCallback or after a
\* registration of a null callback.
C21_DeliveredToLatestListener ==
    Delivered = IF listener.callback = NULL THEN <<>> ELSE MessagesTo(listener)

\* a call logged two or more messages while a C callback was registered through the
\* bridge, and they reached that callback
C21_Witness ==
    /\ api \in {"CompileGLSL", "SPIRVReflect"}
    /\ g_logCallback = Ptr("CLogBridge")
    /\ listener = [callback |-> Ptr("OnOtherLog"), userData |-> Ptr("userData")]
    /\ Len(Delivered) >= 2


\* the orders in which a backend may enumerate the same interface variables
Reorderings(s) == {[i \in 1..Len(s) |-> s[p[i]]] : p \in Permutations(1..Len(s))}

\* the SPIR-V backend of the last call with its stage inputs and outputs enumerated in
\* another order
SpvReenumerated ==
    LET be == Deref(backend)
    IN  {[be EXCEPT !.lists.STAGE_INPUT = Ptr(sin), !.lists.STAGE_OUTPUT = Ptr(sout)] :
            sin \in Reorderings(Deref(be.lists.STAGE_INPUT)),
            sout \in Reorderings(Deref(be.lists.STAGE_OUTPUT))}

DxilReenumerated ==
    LET be == Deref(backend)
    IN  {[be EXCEPT !.shader.InputParameters = sin, !.shader.OutputParameters = sout] :
            sin \in Reorderings(be.shader.InputParameters),
            sout \in Reorderings(be.shader.OutputParameters)}

\* C22: the reflection output does not depend on the enumeration order: reflecting the
\* same module again, with the backend enumerating the same stage inputs and outputs in
\* any other order, returns stageInputs and stageOutputs equal element for element to
\* those of the last call, also when several entries share a location (register index).
C22_EnumerationOrderIrrelevant ==
    /\ (/\ api = "SPIRVReflect"
        /\ Deref(backend).lists.STAGE_INPUT # NULL
        /\ Deref(backend).lists.STAGE_OUTPUT # NULL) =>
           \A be \in SpvReenumerated : \A again \in SPIRVReflect(info.shaderType, code, be) :
               /\ again.info.stageInputs = info.stageInputs
               /\ again.info.stageOutputs = info.stageOutputs
    /\ api = "DXILReflect" =>
           \A be \in DxilReenumerated : \A again \in DXILReflect(info.shaderType, code, host, be) :
               /\ again.info.stageInputs = info.stageInputs
               /\ again.info.stageOutputs = info.stageOutputs


\* the last call was a DXIL reflection that got past the size check of the blob
DxilObtainRan == api \in DxilCalls /\ Reflected /\ host = "windows" /\ code >= 4

\* where in the trace the named native call was made
PositionsOf(name) == {i \in 1..Len(trace) : IsCall(trace[i], name)}

ContainerPositions ==
    UNION {PositionsOf(DxilContainerSteps[k].name) : k \in 1..Len(DxilContainerSteps)}

\* the error reported when no reflection interface could be obtained
ObtainFailureReported ==
    \E i \in 1..Len(trace) : trace[i] = LogEv("ERROR", "DXIL reflection failed. HRESULT=")

\* container first, D3DReflect at most once, after it, and exactly when the container
\* attempt failed or left no interface
FallbackAfterContainer ==
    LET be == Deref(backend)
    IN  /\ trace # <<>> /\ trace[1] = DxilContainerSteps[1]
        /\ SubSeq(trace, 1, Len(DxilContainerCalls(be))) = DxilContainerCalls(be)
        /\ Cardinality(PositionsOf("D3DReflect")) <= 1
        /\ \A i \in PositionsOf("D3DReflect") : \A j \in ContainerPositions : j < i
        /\ PositionsOf("D3DReflect") # {} <=> be.container # "ok"

\* C23 as claimed: DXILReflect attempts the container-based extraction first and calls
\* D3DReflect only when that attempt failed or produced no interface, never after a
\* successful extraction, and the call reports a failure only if both attempts failed.
C23_FailureOnlyIfBothFailed ==
    DxilObtainRan =>
        /\ FallbackAfterContainer
        /\ Logs(trace, "ERROR") # <<>> =>
              (Deref(backend).container # "ok" /\ ~Deref(backend).legacy)

\* C23 as it holds: DXILReflect attempts the container-based extraction first and calls
\* D3DReflect only when that attempt failed or produced no interface, never after a
\* successful extraction, and it reports that no reflection could be obtained exactly
\* when both attempts failed (a failing GetDesc is reported on its own, whichever
\* attempt produced the interface).
C23_FallbackOnlyAfterContainerFailure ==
    DxilObtainRan =>
        /\ FallbackAfterContainer
        /\ ObtainFailureReported <=>
              (Deref(backend).container # "ok" /\ ~Deref(backend).legacy)

\* a container without a DXIL part: the legacy reflection was called after the five
\* container steps and produced the stage inputs
C23_Witness ==
    /\ api = "DXILReflect" /\ host = "windows" /\ code >= 4
    /\ Deref(backend).container = "nopart" /\ Deref(backend).legacy
    /\ PositionsOf("D3DReflect") = {6}
    /\ ~ObtainFailureReported
    /\ Len(info.stageInputs) >= 2


\* the last call was a DXILReflect that read the shader description
DxilDescribed ==
    /\ api = "DXILReflect" /\ host = "windows" /\ code >= 4
    /\ \E i \in 1..Len(trace) : trace[i] = LogEv("INFO", "DXIL reflection complete: ")

\* texture, sampler and unordered-access tags as the claim names them
TextureTags == {"TEXTURE"}
SamplerTags == {"SAMPLER"}
UnorderedAccessTags ==
    {"UAV_RWTYPED", "UAV_RWSTRUCTURED", "UAV_RWBYTEADDRESS", "UAV_APPEND_STRUCTURED",
     "UAV_CONSUME_STRUCTURED", "UAV_RWSTRUCTURED_WITH_COUNTER", "UAV_FEEDBACKTEXTURE"}

\* how many entries of the category describe bound resource i (id i - 1) as bindDesc does
EntriesFor(category, i, bindDesc) ==
    Cardinality({k \in 1..Len(category) :
                    /\ category[k].id = i - 1
                    /\ category[k].name = NameOf(bindDesc.Name)
                    /\ category[k].binding = bindDesc.BindPoint
                    /\ category[k].set = bindDesc.Space
                    /\ category[k].count = bindDesc.BindCount})

Expected(bindDesc, tags) == IF bindDesc.ok /\ bindDesc.Type \in tags THEN 1 ELSE 0

\* C24: DXILReflect places each bound resource in at most one category, by its type tag:
\* a texture in sampledImages, a sampler in separateSamplers, every unordered-access
\* variant in storageBuffers and a resource with any other tag (or whose binding
\* description cannot be read) in none of the three; the three lists hold nothing else,
\* storageImages, separateImages and pushConstants stay empty, and the three lengths
\* together do not exceed the number of bound resources.
C24_BoundResourceClassified ==
    DxilDescribed =>
        LET bound == Deref(backend).shader.BoundResources
        IN  /\ \A i \in 1..Len(bound) :
                  /\ EntriesFor(info.sampledImages, i, bound[i]) = Expected(bound[i], TextureTags)
                  /\ EntriesFor(info.separateSamplers, i, bound[i]) = Expected(bound[i], SamplerTags)
                  /\ EntriesFor(info.storageBuffers, i, bound[i])
                        = Expected(bound[i], UnorderedAccessTags)
            /\ \A category \in {info.sampledImages, info.separateSamplers, info.storageBuffers} :
                  /\ \A k \in 1..Len(category) : category[k].id \in 0..(Len(bound) - 1)
                  /\ \A k, l \in 1..Len(category) : k < l => category[k].id < category[l].id
            /\ info.storageImages = <<>> /\ info.separateImages = <<>> /\ info.pushConstants = <<>>
            /\ Len(info.sampledImages) + Len(info.separateSamplers) + Len(info.storageBuffers)
                  <= Len(bound)

\* a shader with eleven bound resources, among them six unordered-access variants, a
\* read-only structured buffer and one whose description cannot be read
C24_Witness ==
    /\ DxilDescribed
    /\ Len(Deref(backend).shader.BoundResources) = 11
    /\ Len(info.storageBuffers) = 6
    /\ info.sampledImages = <<>>
    /\ \E i \in 1..11 : Deref(backend).shader.BoundResources[i].Type = "STRUCTURED"


\* the three scalar kinds both mappers know, as (D3D component type, SPIRV-Cross base type)
MapperKinds == {<<"FLOAT32", "FP32">>, <<"SINT32", "INT32">>, <<"UINT32", "UINT32">>}

\* the format one slot below, for the two float formats the D3D mapper shifts
SlotBelow(format) == CASE format = "FLOAT3" -> "FLOAT2" [] format = "FLOAT4" -> "FLOAT3"

\* what the claim says the D3D mapper returns, given what the SPIRV-Cross mapper returns
\* for the same scalar kind and width
FamilyAOf(componentType, elementCount, familyB) ==
    IF componentType = "FLOAT32" /\ elementCount \in {3, 4} THEN SlotBelow(familyB)
    ELSE familyB

\* C25: for each scalar kind among float32, int32 and uint32 and each width 1..4 the two
\* type mappers return the same format, a valid one, except for float32 of width 3 and
\* 4, where IGNITE_Map3DComponent returns the format one slot below the one
\* IGNITE_MapSpvcType returns (FLOAT2 for FLOAT3, FLOAT3 for FLOAT4); for every other
\* scalar kind or width both return the unsupported format.
C25_MappersDifferByFloatShift ==
    /\ api = "IGNITE_Map3DComponent" =>
          LET m == Deref(mapped)
          IN  IF m.elementCount \in 1..4 /\ \E k \in MapperKinds : k[1] = m.componentType
              THEN \A k \in MapperKinds : k[1] = m.componentType =>
                      LET familyB == IGNITE_MapSpvcType(Ptr(SpvcType(k[2], m.elementCount, 1)))
                      IN  /\ familyB # INVALID
                          /\ m.componentType = "FLOAT32" /\ m.elementCount = 3 => familyB = "FLOAT3"
                          /\ m.componentType = "FLOAT32" /\ m.elementCount = 4 => familyB = "FLOAT4"
                          /\ m.format = FamilyAOf(m.componentType, m.elementCount, familyB)
              ELSE m.format = INVALID
    /\ (api = "IGNITE_MapSpvcType" /\ Deref(mapped).typeHandle # NULL
            /\ Deref(Deref(mapped).typeHandle).columns = 1) =>
          LET m == Deref(mapped)
              t == Deref(m.typeHandle)
          IN  IF t.vecsize \in 1..4 /\ \E k \in MapperKinds : k[2] = t.basetype
              THEN \A k \in MapperKinds : k[2] = t.basetype =>
                      /\ m.format # INVALID
                      /\ IGNITE_Map3DComponent(k[1], t.vecsize) = FamilyAOf(k[1], t.vecsize, m.format)
              ELSE m.format = INVALID

\* the D3D mapper was applied to three 32-bit floats and returned the two-float format
C25_Witness ==
    /\ api = "IGNITE_Map3DComponent"
    /\ Deref(mapped).componentType = "FLOAT32"
    /\ Deref(mapped).elementCount = 3
    /\ Deref(mapped).format = "FLOAT2"
    /\ IGNITE_MapSpvcType(Ptr(SpvcType("FP32", 3, 1))) = "FLOAT3"


\* the arguments in list order, each followed by one space (built by thirds)
RECURSIVE SpaceTerminated(_)
SpaceTerminated(a) ==
    IF a = <<>> THEN ""
    ELSE IF Len(a) = 1 THEN a[1] \o " "
    ELSE IF Len(a) = 2 THEN a[1] \o " " \o a[2] \o " "
    ELSE LET cut == (2 * Len(a)) \div 3
         IN  SpaceTerminated(SubSeq(a, 1, cut)) \o SpaceTerminated(SubSeq(a, cut + 1, Len(a)))

WarningPositions == {i \in 1..Len(trace) : IsLog(trace[i], "WARNING")}

\* C26: when verbose is set CompileDXC logs the final argument list as exactly one
\* message, holding every argument in list order, and dispatches it before the backend
\* Compile call; when verbose is not set there is no such message; the argument list
\* handed to the backend is the same with and without verbose.
C26_VerboseLogsArgsBeforeCompile ==
    DxcRan =>
        /\ \E c \in PositionsOf("Compile") :
              /\ PositionsOf("Compile") = {c}
              /\ trace[c].data = args
              /\ IF options.verbose
                 THEN \E w \in WarningPositions :
                         /\ WarningPositions = {w}
                         /\ w < c
                         /\ trace[w].data = SpaceTerminated(args)
                 ELSE WarningPositions = {}
        /\ LET other == [options EXCEPT !.verbose = ~options.verbose]
           IN  DxcArgs(other, RegShiftBlock(other)) = args

\* a verbose compilation with user options and a register-shift block: one line of more
\* than a hundred arguments was logged before Compile
C26_Witness ==
    /\ api = "CompileDXC" /\ options.verbose
    /\ Len(args) > 100
    /\ UserTokens # <<>>
    /\ \E w \in WarningPositions : trace[w].data = SpaceTerminated(args) /\ w = 2
    /\ PositionsOf("Compile") = {4}


\* Reading an options string by position. The character at i is escaped when an
\* unescaped backslash stands right before it.
RECURSIVE Escaped(_, _)
Escaped(in, i) == i > 1 /\ in[i - 1] = "\\" /\ ~Escaped(in, i - 1)

\* i is inside double quotes: an odd number of unescaped quotes stands before it
Quoted(in, i) ==
    Cardinality({j \in 1..(i - 1) : in[j] = "\"" /\ ~Escaped(in, j)}) % 2 = 1

\* a space outside double quotes ends the current option
Separator(in, i) == in[i] = " " /\ ~Escaped(in, i) /\ ~Quoted(in, i)

\* the characters that become part of an option: the escaped ones, and the others
\* except backslashes, quotes and separating spaces
Literal(in, i) == Escaped(in, i) \/ (in[i] \notin {"\\", "\""} /\ ~Separator(in, i))

\* the option text between two separators: the literal characters of in[a..b]
OptionText(in, a, b) ==
    Join([k \in 1..(b - a + 1) |-> IF Literal(in, a + k - 1) THEN in[a + k - 1] ELSE ""])

\* the last position before the first separator at or after a
OptionEnd(in, a) ==
    CHOOSE b \in (a - 1)..Len(in) :
        /\ b = Len(in) \/ Separator(in, b + 1)
        /\ \A k \in a..b : ~Separator(in, k)

\* the options of one string, in input order, empty ones left out
OptionsOf(in) ==
    SelectSeq([a \in 1..Len(in) |->
                  IF a = 1 \/ Separator(in, a - 1) THEN OptionText(in, a, OptionEnd(in, a))
                  ELSE ""],
              LAMBDA text : text # "")

\* C27: TokenizeCompilerOptions splits its input into options separated by spaces: a
\* space outside double quotes ends the current option and empty options are not
\* emitted, a space inside double quotes is kept, the quote characters are dropped, and
\* a backslash makes the next character (a space, a quote or a backslash included) part
\* of the option literally; the options are appended in input order to the arguments
\* built before, which stay as they were.
C27_OptionsSplitAtUnquotedSpaces ==
    DxcRan =>
        LET before == DxcArgs([options EXCEPT !.compilerOptions = <<>>], regShifts)
            appended == Flatten([k \in 1..Len(options.compilerOptions) |->
                                    OptionsOf(options.compilerOptions[k])])
        IN  args = before \o appended

\* two option strings with quoted and escaped spaces, escaped quotes and backslashes and
\* an empty quoted option were split into four options
C27_Witness ==
    /\ api = "CompileDXC"
    /\ Len(options.compilerOptions) = 2
    /\ Len(args) > 5
    /\ SubSeq(args, Len(args) - 3, Len(args)) = <<"-Zi", "a b c", "\"q\\", "x">>
    /\ args[Len(args) - 4] # "-Zi"


\* the number of 4-byte components a vertex element format denotes
FormatComponents(format) ==
    CASE format \in {"FLOAT", "INT", "UINT"} -> 1
      [] format \in {"FLOAT2", "INT2", "UINT2"} -> 2
      [] format \in {"FLOAT3", "INT3", "UINT3"} -> 3
      [] format \in {"FLOAT4", "INT4", "UINT4"} -> 4

\* where attribute i of the layout ends: the next attribute's offset, or the stride
AttributeEnd(attrs, i) ==
    IF i < Len(attrs) THEN attrs[i + 1].offset ELSE attrs[i].elementStride

\* C28: format and layout agree for every emitted vertex attribute, on the SPIR-V and on
\* the DXIL path: four times the number of components its format denotes is the
\* distance from its offset to the next attribute's offset, or to the stride for the
\* last attribute.
C28_FormatMatchesLayout ==
    Reflected =>
        \A i \in 1..Len(info.vertexAttributes) :
            /\ info.vertexAttributes[i].format # INVALID
            /\ 4 * FormatComponents(info.vertexAttributes[i].format)
                  = AttributeEnd(info.vertexAttributes, i) - info.vertexAttributes[i].offset


\* the names of the entries of a list, in order
NamesOf(list) == [i \in 1..Len(list) |-> list[i].name]

FailedAfterValidation ==
    api \in CReflectCalls /\ result \notin {"OK", "INVALID_ARGUMENT"}

\* the heap blocks the arrays ahead of the k-th one take when flattened: one per
\* non-empty vector of the reflection and one per name of its entries
AllocatedBefore(k) ==
    UNION {IF info[CArrayOrder[j]] = <<>> THEN {}
           ELSE {CArrayOrder[j]} \cup
                {CArrayOrder[j] \o "[" \o DecimalText(i - 1) \o "].name" :
                    i \in 1..Len(info[CArrayOrder[j]])} :
           j \in 1..(k - 1)}

\* the std::free calls of the last call
Frees == SelectSeq(trace, LAMBDA e : IsCall(e, "free"))

\* C30: whenever IgniteCompiler_ReflectSPIRV or IgniteCompiler_ReflectDXIL returns a
\* result other than OK after having passed argument validation (an allocation failure
\* while flattening, or an exception), the caller's structure is entirely zero, whatever
\* it held before the call and however many arrays had been filled, and every block
\* the call allocated has been freed exactly once.
C30_FailureLeavesStructureZero ==
    FailedAfterValidation =>
        /\ outInfo = ZeroCReflectionInfo
        /\ {Frees[j].data : j \in 1..Len(Frees)} = AllocatedBefore(allocator)
        /\ Len(Frees) = Cardinality(AllocatedBefore(allocator))

\* the allocation of the vertex attribute array was refused after the stage inputs
\* had been flattened, in a call whose structure still held an earlier result
C30_Witness ==
    /\ FailedAfterValidation /\ allocator = 10
    /\ Deref(Deref(request).out) = StaleCReflectionInfo
    /\ outInfo = ZeroCReflectionInfo
    /\ \E j \in 1..Len(Frees) : Frees[j] = Call("free", "stageInputs")
    /\ \E j \in 1..Len(Frees) : Frees[j] = Call("free", "stageInputs[0].name")

====
